---------------------------- MODULE Spec2Model ----------------------------
(***************************************************************************)
(* Verification-method resolution and linked-data proof construction of   *)
(* the verifiable command controller                                      *)
(* (pkg/controller/command/verifiable/command.go) together with the       *)
(* document operations exercised by the verifiable package examples.      *)
(*                                                                         *)
(* Strings are sequences of tokens: "did:" and "#" are tokens of their    *)
(* own, every other token holds neither of them.  The empty string is     *)
(* <<>> and Go's + is \o.  An error is the chain of its messages, the     *)
(* outermost wrapper first; <<>> is the nil error.                        *)
(***************************************************************************)
EXTENDS Integers, Sequences, FiniteSets, TLC

VARIABLES
    pc,      \* "idle", or the name of the operation that returned last
    req,     \* the arguments the last operation was called with
    didDoc,  \* the *did.Doc the operation works on
    opts,    \* the caller's *ProofOptions object, Nil or its fields
    ret,     \* what the last operation returned
    doc,     \* the verifiable document in hand, with its proof collection
    verifiableStore  \* the records of the command's *verifiablestore.Store

vars == <<pc, req, didDoc, opts, ret, doc, verifiableStore>>

-----------------------------------------------------------------------------
(* Bounds of the model *)

MaxKeys == 2      \* longest flat public-key list of a DID document
MaxAuth == 2      \* longest authentication list of a DID document
MaxProofs == 2    \* longest proof collection a document is grown to

-----------------------------------------------------------------------------
(* Strings *)

EmptyString == <<>>

HasPrefix(s, prefix) ==
    /\ Len(s) >= Len(prefix)
    /\ SubSeq(s, 1, Len(prefix)) = prefix

SeqUpTo(S, n) == UNION {[1..k -> S] : k \in 0..n}

\* a nil pointer to a struct; a nil *time.Time is the empty sequence
Nil == [nil |-> TRUE]
NilTime == <<>>
NoErr == <<>>

-----------------------------------------------------------------------------
(* Program constants *)

creatorParts == 2
Ed25519Signature2018 == <<"Ed25519Signature2018">>
JSONWebSignature2020 == <<"JsonWebSignature2020">>
Ed25519VerificationKey == <<"Ed25519VerificationKey">>

ErrNoMatchingVM ==
    <<"unable to find matching 'authentication' key IDs for given verification method">>
ErrPublicKeyNotFound == <<"public key not found in DID Document">>
ErrDefaultVM == <<"failed to get default verification method">>

-----------------------------------------------------------------------------
(* The inputs the model draws from *)

DocIDs == {<<"did:", "example:123">>}

KeyIDs == {EmptyString,
           <<"#", "key1">>,
           <<"did:", "example:123", "#", "key2">>,
           <<"key3">>}

KeyTypes == {<<"Ed25519VerificationKey", "2018">>,
             <<"JwsVerificationKey2020">>}

\* did.PublicKey: the fields the controller reads
PublicKeys == [ID : KeyIDs, Type : KeyTypes]

\* did.VerificationMethod: the controller reads PublicKey.ID only
AuthMethods == [PublicKey : [ID : KeyIDs, Type : {<<"Ed25519VerificationKey", "2018">>}]]

Docs == [ID : DocIDs,
         PublicKey : SeqUpTo(PublicKeys, MaxKeys),
         Authentication : SeqUpTo(AuthMethods, MaxAuth)]

SignatureTypes == {Ed25519Signature2018, JSONWebSignature2020,
                   <<"BbsBlsSignature2020">>, <<"NotASuite">>, EmptyString}

\* ProofOptions as a request carries them; proofPurpose is unexported and unset
ProofOptionsIn ==
    [VerificationMethod : KeyIDs,
     SignatureType : {Ed25519Signature2018},
     Created : {NilTime},
     Domain : {EmptyString},
     Challenge : {EmptyString},
     proofPurpose : {EmptyString}]
    \cup
    [VerificationMethod : KeyIDs,
     SignatureType : {JSONWebSignature2020},
     Created : {<<"2010-01-01T19:23:24Z">>},
     Domain : {<<"example.com">>},
     Challenge : {<<"c0ffee">>},
     proofPurpose : {EmptyString}]

EmptyProofOptions ==
    [VerificationMethod |-> EmptyString,
     SignatureType |-> EmptyString,
     Created |-> NilTime,
     Domain |-> EmptyString,
     Challenge |-> EmptyString,
     proofPurpose |-> EmptyString]

NoRet == [err |-> NoErr]
NoReq == [op |-> "none"]
NoDoc == Nil

\* the store verifiablestore.New(p) hands to the command: no credential, no
\* presentation and no name record yet
EmptyStore ==
    [credentials |-> {}, credentialRecords |-> {},
     presentations |-> {}, presentationRecords |-> {}]

-----------------------------------------------------------------------------
(* Verification-method resolution *)

isDID(str) == HasPrefix(str, <<"did:">>)

\* did.Doc.VerificationMethods(did.Authentication)[did.Authentication]:
\* the authentication relationship, in document order
VerificationMethods(d) == d.Authentication

\* the loop over didDoc.PublicKey: the id of the first key of an Ed25519
\* verification-key type, "" when the loop ends without one
RECURSIVE firstEd25519KeyID(_, _)
firstEd25519KeyID(keys, i) ==
    IF i > Len(keys) THEN EmptyString
    ELSE IF HasPrefix(keys[i].Type, Ed25519VerificationKey) THEN keys[i].ID
    ELSE firstEd25519KeyID(keys, i + 1)

\* getDefaultVerificationMethod without the isDID test: every key id is prefixed
getDefaultVerificationMethod_alwaysQualified(d) ==
    IF Len(d.PublicKey) > 0 THEN
        LET found == firstEd25519KeyID(d.PublicKey, 1)
            publicKeyID == IF found = EmptyString THEN d.PublicKey[1].ID ELSE found
        IN  [vm |-> d.ID \o publicKeyID, err |-> NoErr, publicKeyID |-> publicKeyID]
    ELSE IF Len(d.Authentication) > 0 THEN
        [vm |-> d.Authentication[1].PublicKey.ID, err |-> NoErr,
         publicKeyID |-> EmptyString]
    ELSE
        [vm |-> EmptyString, err |-> ErrPublicKeyNotFound, publicKeyID |-> EmptyString]

\* getDefaultVerificationMethod without the authentication case
getDefaultVerificationMethod_noAuthenticationCase(d) ==
    IF Len(d.PublicKey) > 0 THEN
        LET found == firstEd25519KeyID(d.PublicKey, 1)
            publicKeyID == IF found = EmptyString THEN d.PublicKey[1].ID ELSE found
        IN  IF ~isDID(publicKeyID)
            THEN [vm |-> d.ID \o publicKeyID, err |-> NoErr, publicKeyID |-> publicKeyID]
            ELSE [vm |-> publicKeyID, err |-> NoErr, publicKeyID |-> publicKeyID]
    ELSE
        [vm |-> EmptyString, err |-> ErrPublicKeyNotFound, publicKeyID |-> EmptyString]

getDefaultVerificationMethod(d) ==
    IF Len(d.PublicKey) > 0 THEN
        LET found == firstEd25519KeyID(d.PublicKey, 1)
            publicKeyID == IF found = EmptyString THEN d.PublicKey[1].ID ELSE found
        IN  IF ~isDID(publicKeyID)
            THEN [vm |-> d.ID \o publicKeyID, err |-> NoErr, publicKeyID |-> publicKeyID]
            ELSE [vm |-> publicKeyID, err |-> NoErr, publicKeyID |-> publicKeyID]
    ELSE IF Len(d.Authentication) > 0 THEN
        [vm |-> d.Authentication[1].PublicKey.ID, err |-> NoErr,
         publicKeyID |-> EmptyString]
    ELSE
        [vm |-> EmptyString, err |-> ErrPublicKeyNotFound, publicKeyID |-> EmptyString]

\* scanAuthVMs that takes the first authentication method's id for a match
scanAuthVMs_anyMethodMatches(authVMs, i, vm, vmMatched) ==
    IF i > Len(authVMs) THEN [vm |-> vm, vmMatched |-> vmMatched]
    ELSE IF vm # EmptyString THEN [vm |-> vm, vmMatched |-> TRUE]
    ELSE [vm |-> authVMs[i].PublicKey.ID, vmMatched |-> vmMatched]

\* the loop over authVMs: the verification method and vmMatched when it ends
RECURSIVE scanAuthVMs(_, _, _, _)
scanAuthVMs(authVMs, i, vm, vmMatched) ==
    IF i > Len(authVMs) THEN [vm |-> vm, vmMatched |-> vmMatched]
    ELSE IF vm # EmptyString THEN
        IF vm = authVMs[i].PublicKey.ID
        THEN [vm |-> vm, vmMatched |-> TRUE]
        ELSE scanAuthVMs(authVMs, i + 1, vm, vmMatched)
    ELSE [vm |-> authVMs[i].PublicKey.ID, vmMatched |-> vmMatched]

\* prepareOpts that returns fresh options holding the verification method only
prepareOpts_rebuildsOptions(o, d) ==
    LET o0 == IF o = Nil THEN EmptyProofOptions ELSE o
        scan == scanAuthVMs(VerificationMethods(d), 1, o0.VerificationMethod,
                            o0.VerificationMethod = EmptyString)
        fresh(vm) == [EmptyProofOptions EXCEPT !.proofPurpose = <<"authentication">>,
                                               !.VerificationMethod = vm]
    IN  IF ~scan.vmMatched THEN [opts |-> Nil, err |-> ErrNoMatchingVM, arg |-> o]
        ELSE IF scan.vm = EmptyString THEN
            LET defaultVM == getDefaultVerificationMethod(d)
            IN  IF defaultVM.err # NoErr
                THEN [opts |-> Nil, err |-> ErrDefaultVM \o defaultVM.err, arg |-> o]
                ELSE [opts |-> fresh(defaultVM.vm), err |-> NoErr, arg |-> o]
        ELSE [opts |-> fresh(scan.vm), err |-> NoErr, arg |-> o]

\* opts: the returned *ProofOptions (Nil on error); arg: the object the caller
\* passed, as the call leaves it (Nil when the caller passed nil)
prepareOpts(o, d) ==
    LET o0 == IF o = Nil THEN EmptyProofOptions ELSE o
        o1 == [o0 EXCEPT !.proofPurpose = <<"authentication">>]
        authVMs == VerificationMethods(d)
        scan == scanAuthVMs(authVMs, 1, o1.VerificationMethod,
                            o1.VerificationMethod = EmptyString)
        o2 == [o1 EXCEPT !.VerificationMethod = scan.vm]
        arg(x) == IF o = Nil THEN Nil ELSE x
    IN  IF ~scan.vmMatched THEN
            [opts |-> Nil, err |-> ErrNoMatchingVM, arg |-> arg(o2)]
        ELSE IF o2.VerificationMethod = EmptyString THEN
            LET defaultVM == getDefaultVerificationMethod(d)
            IN  IF defaultVM.err # NoErr
                THEN [opts |-> Nil, err |-> ErrDefaultVM \o defaultVM.err, arg |-> arg(o2)]
                ELSE LET o3 == [o2 EXCEPT !.VerificationMethod = defaultVM.vm]
                     IN  [opts |-> o3, err |-> NoErr, arg |-> arg(o3)]
        ELSE [opts |-> o2, err |-> NoErr, arg |-> arg(o2)]

-----------------------------------------------------------------------------
(* SpecResolve: the two resolution functions applied to every DID document  *)
(* and every request within the bounds                                      *)

InitResolve ==
    /\ pc = "idle"
    /\ verifiableStore = EmptyStore
    /\ didDoc \in Docs
    /\ opts \in ProofOptionsIn \cup {Nil}
    /\ req = [op |-> "none", opts |-> opts]
    /\ ret = NoRet
    /\ doc = NoDoc

PrepareOpts ==
    /\ pc = "idle"
    /\ pc' = "prepareOpts"
    /\ LET r == prepareOpts(opts, didDoc)
       IN  /\ ret' = [opts |-> r.opts, err |-> r.err]
           /\ opts' = r.arg
    /\ req' = [op |-> "prepareOpts", opts |-> opts]
    /\ UNCHANGED <<verifiableStore, didDoc, doc>>

GetDefaultVerificationMethod ==
    /\ pc = "idle"
    /\ pc' = "getDefaultVerificationMethod"
    /\ ret' = getDefaultVerificationMethod(didDoc)
    /\ req' = [op |-> "getDefaultVerificationMethod", opts |-> opts]
    /\ UNCHANGED <<verifiableStore, didDoc, opts, doc>>

NextResolve == PrepareOpts \/ GetDefaultVerificationMethod

SpecResolve == InitResolve /\ [][NextResolve]_vars

-----------------------------------------------------------------------------
(* Claims on verification-method resolution, checked under SpecResolve *)

requestedVM == IF req.opts = Nil THEN EmptyString ELSE req.opts.VerificationMethod
authIDs == {didDoc.Authentication[i].PublicKey.ID : i \in 1..Len(didDoc.Authentication)}

\* C1: with no verification method requested and at least one authentication
\* method listed, prepareOpts succeeds and returns the public-key id of the
\* first authentication method, whatever the flat public-key list holds.
C1_FirstAuthenticationMethodWins ==
    (pc = "prepareOpts" /\ requestedVM = EmptyString /\ Len(didDoc.Authentication) >= 1)
        => /\ ret.err = NoErr
           /\ ret.opts.VerificationMethod = didDoc.Authentication[1].PublicKey.ID

\* C2: with a verification method requested, prepareOpts succeeds exactly when
\* an authentication method has that public-key id, then returns that id;
\* otherwise it fails with the no-matching-method error, flat list or not.
C2_RequestedMethodMustBeListed ==
    (pc = "prepareOpts" /\ requestedVM # EmptyString)
        => /\ (ret.err = NoErr) <=> (requestedVM \in authIDs)
           /\ ret.err = NoErr => ret.opts.VerificationMethod = requestedVM
           /\ ret.err # NoErr => (ret.err = ErrNoMatchingVM /\ ret.opts = Nil)

C2_Witness ==
    /\ pc = "prepareOpts"
    /\ requestedVM # EmptyString
    /\ Len(didDoc.Authentication) = 0
    /\ \E i \in 1..Len(didDoc.PublicKey) : didDoc.PublicKey[i].ID = requestedVM
    /\ ret.err = ErrNoMatchingVM

\* what C4 and C5 say the flat-key fallback selects and returns
ed25519Keys == {i \in 1..Len(didDoc.PublicKey) :
                   HasPrefix(didDoc.PublicKey[i].Type, <<"Ed25519VerificationKey">>)}
firstEd25519Key == CHOOSE i \in ed25519Keys : \A j \in ed25519Keys : i <= j
qualified(id) == IF HasPrefix(id, <<"did:">>) THEN id ELSE didDoc.ID \o id

\* C4: for a non-empty flat key list getDefaultVerificationMethod selects the
\* first key of an Ed25519 verification-key type when there is one, and the
\* first key of the list only when there is none.
C4_FirstEd25519KeyPreferred ==
    (pc = "getDefaultVerificationMethod" /\ Len(didDoc.PublicKey) > 0)
        => ret.vm = qualified(IF ed25519Keys # {}
                              THEN didDoc.PublicKey[firstEd25519Key].ID
                              ELSE didDoc.PublicKey[1].ID)

\* C5 as stated: every id the fallback returns is qualified, the id taken from
\* the first authentication entry included.
C5_EveryReturnedIDQualified ==
    (pc = "getDefaultVerificationMethod" /\ ret.err = NoErr)
        => ret.vm = qualified(IF Len(didDoc.PublicKey) > 0
                              THEN ret.publicKeyID
                              ELSE didDoc.Authentication[1].PublicKey.ID)

\* C5 amended: an id selected from the flat key list is returned unchanged
\* when it starts with "did:" and prefixed with the document id otherwise; the
\* id of the first authentication entry, used when the flat list is empty, is
\* returned as it is.
C5_FlatKeyIDQualified ==
    (pc = "getDefaultVerificationMethod" /\ ret.err = NoErr)
        => /\ Len(didDoc.PublicKey) > 0 => ret.vm = qualified(ret.publicKeyID)
           /\ Len(didDoc.PublicKey) = 0 => ret.vm = didDoc.Authentication[1].PublicKey.ID

C5_Witness ==
    /\ pc = "getDefaultVerificationMethod"
    /\ Len(didDoc.PublicKey) > 0
    /\ ret.publicKeyID = <<"#", "key1">>
    /\ ret.vm = <<"did:", "example:123", "#", "key1">>

\* C6: default resolution fails, with the public-key-not-found error, exactly
\* when the flat key list and the authentication list are both empty.
C6_NotFoundOnlyForEmptyDocument ==
    pc = "getDefaultVerificationMethod"
        => /\ (ret.err # NoErr) <=> (Len(didDoc.PublicKey) = 0 /\ Len(didDoc.Authentication) = 0)
           /\ ret.err \in {NoErr, ErrPublicKeyNotFound}

C6_Witness ==
    /\ pc = "getDefaultVerificationMethod"
    /\ Len(didDoc.PublicKey) = 0
    /\ Len(didDoc.Authentication) = 0
    /\ ret.err = ErrPublicKeyNotFound

\* the caller's options before the call; the empty ones when the caller passed nil
optsBefore == IF req.opts = Nil THEN EmptyProofOptions ELSE req.opts

\* the fields prepareOpts never writes are equal in x and y
sameUnwrittenFields(x, y) ==
    /\ x.SignatureType = y.SignatureType
    /\ x.Created = y.Created
    /\ x.Domain = y.Domain
    /\ x.Challenge = y.Challenge

\* C13: prepareOpts changes the caller's options only to fill unset values:
\* signature type, created, domain and challenge are as the caller set them on
\* every path, in the caller's object and in the returned options; a
\* non-empty verification method is never overwritten, and is returned equal on
\* success; the only writes are to an empty verification method and to the
\* proof purpose.
C13_OnlyUnsetValuesFilled ==
    pc = "prepareOpts"
        => /\ req.opts # Nil
                => /\ sameUnwrittenFields(opts, req.opts)
                   /\ req.opts.VerificationMethod # EmptyString
                        => opts.VerificationMethod = req.opts.VerificationMethod
                   /\ opts.proofPurpose = <<"authentication">>
           /\ req.opts = Nil => opts = Nil
           /\ ret.err = NoErr
                => /\ sameUnwrittenFields(ret.opts, optsBefore)
                   /\ optsBefore.VerificationMethod # EmptyString
                        => ret.opts.VerificationMethod = optsBefore.VerificationMethod
                   /\ req.opts # Nil => ret.opts = opts

C13_Witness ==
    /\ pc = "prepareOpts"
    /\ req.opts # Nil
    /\ req.opts.VerificationMethod = EmptyString
    /\ req.opts.Domain = <<"example.com">>
    /\ ret.err = NoErr
    /\ opts.VerificationMethod = <<"#", "key1">>
    /\ opts.proofPurpose = <<"authentication">>
    /\ opts.Domain = <<"example.com">>
    /\ opts.SignatureType = JSONWebSignature2020

-----------------------------------------------------------------------------
(* Documents and proofs *)

\* A credential or a presentation: the fields the operations below touch.
\* Proofs is the proof collection, in insertion order.
Document(kind, id, proofs) ==
    [kind |-> kind, ID |-> id, Holder |-> EmptyString, Credentials |-> <<>>,
     Proofs |-> proofs]

\* vcJSON of the examples, parsed
ExampleCredential == Document("credential", <<"http://example.edu/credentials/1872">>, <<>>)

\* a proof a presentation carries already when the caller supplies it
SuppliedProof ==
    [type |-> Ed25519Signature2018,
     created |-> <<"2010-01-01T19:23:24Z">>,
     proofPurpose |-> <<"authentication">>,
     verificationMethod |-> <<"did:", "example:other", "#", "key9">>,
     jws |-> [by |-> <<"key9">>, suite |-> Ed25519Signature2018]]

\* the same proof with a signature that is not the key's
ForgedProof == [SuppliedProof EXCEPT !.jws = [by |-> <<"forged">>, suite |-> @.suite]]

SuppliedPresentations ==
    {Document("presentation", <<"urn:vp:1">>, ps) : ps \in {<<>>, <<SuppliedProof>>}}

Now == <<"now">>
issued == <<"2010-01-01T19:23:24Z">>

WithField(p, name, value) == IF value = EmptyString THEN p ELSE p @@ (name :> value)

\* AddLinkedDataProof that builds every proof for authentication and stamps it
\* with the time of signing
AddLinkedDataProof_authenticationNow(d, ctx, signErr) ==
    IF signErr # NoErr THEN [doc |-> d, err |-> signErr]
    ELSE
        LET signature == [by |-> ctx.Suite.signer, suite |-> ctx.Suite.name]
            required ==
                [type |-> ctx.SignatureType,
                 created |-> Now,
                 proofPurpose |-> <<"authentication">>,
                 verificationMethod |-> ctx.VerificationMethod]
            signed == IF ctx.SignatureRepresentation = "SignatureJWS"
                      THEN required @@ [jws |-> signature]
                      ELSE required @@ [proofValue |-> signature]
        IN  [doc |-> [d EXCEPT !.Proofs = Append(@, signed)], err |-> NoErr]

\* verifiable.Presentation.AddLinkedDataProof / verifiable.Credential.AddLinkedDataProof:
\* sign with the suite's signer, build the proof and append it; on a signing
\* error the document is left as it was.  signErr is the signer's answer.
AddLinkedDataProof(d, ctx, signErr) ==
    IF signErr # NoErr THEN [doc |-> d, err |-> signErr]
    ELSE
        LET signature == [by |-> ctx.Suite.signer, suite |-> ctx.Suite.name]
            required ==
                [type |-> ctx.SignatureType,
                 created |-> IF ctx.Created = NilTime THEN Now ELSE ctx.Created,
                 proofPurpose |-> IF ctx.Purpose = EmptyString
                                  THEN <<"assertionMethod">> ELSE ctx.Purpose,
                 verificationMethod |-> ctx.VerificationMethod]
            signed == IF ctx.SignatureRepresentation = "SignatureJWS"
                      THEN required @@ [jws |-> signature]
                      ELSE required @@ [proofValue |-> signature]
            proof == WithField(WithField(signed, "domain", ctx.Domain),
                               "challenge", ctx.Challenge)
        IN  [doc |-> [d EXCEPT !.Proofs = Append(@, proof)], err |-> NoErr]

\* json.Marshal of a document: the proof member is absent without proofs, the
\* proof object for one proof and an array for more
MarshalJSON(d) ==
    LET members == [type |-> d.kind, id |-> d.ID, holder |-> d.Holder,
                    verifiableCredential |-> d.Credentials]
    IN  IF Len(d.Proofs) = 0 THEN members
        ELSE IF Len(d.Proofs) = 1 THEN members @@ [proof |-> [object |-> d.Proofs[1]]]
        ELSE members @@ [proof |-> [array |-> d.Proofs]]

\* verifiable.Credential.Presentation()
Presentation(vc) ==
    [kind |-> "presentation", ID |-> EmptyString, Holder |-> EmptyString,
     Credentials |-> <<vc.ID>>, Proofs |-> <<>>]

\* verifiable.Presentation.SetCredentials(credentials...)
SetCredentials(vp, credentials) ==
    [vp EXCEPT !.Credentials = [i \in 1..Len(credentials) |-> credentials[i].ID]]

-----------------------------------------------------------------------------
(* Proof construction by the controller *)

\* The capability call that fails during an operation, if one does: the
\* operations return at the first failure, so one name describes the
\* environment's answers.
Faults == {"none", "Presentation", "SetCredentials", "KMSGet", "Sign", "MarshalJSON"}

\* fmt's %s of a []string: the elements between brackets, a blank between them
RECURSIVE FormatStrings(_)
FormatStrings(ss) ==
    IF Len(ss) = 0 THEN <<"[", "]">>
    ELSE IF Len(ss) = 1 THEN <<"[">> \o ss[1] \o <<"]">>
    ELSE <<"[">> \o ss[1] \o <<" ">> \o Tail(FormatStrings(Tail(ss)))

ErrWrongID(idSplit) == <<"wrong id">> \o FormatStrings(idSplit) \o <<"to resolve">>
ErrKMSGet == <<"kms: key not found">>
ErrCryptoSign == <<"crypto: sign failed">>
ErrPresentation == <<"credential: presentation failed">>
ErrSetCredentials == <<"failed to set credentials">>
ErrMarshal == <<"json: marshal failed">>
ErrUnsupportedSignatureType(name) == <<"signature type unsupported">> \o name
ErrAddProof == <<"failed to add linked data proof">>
ErrSignVP == <<"failed to sign vp">>
ErrSignVPByID == <<"failed to sign vp by ID">>

\* strings.Split(s, sep) for a one-token separator
RECURSIVE Split(_, _)
Split(s, sep) ==
    LET at == {i \in 1..Len(s) : s[i] = sep}
    IN  IF at = {} THEN <<s>>
        ELSE LET i == CHOOSE k \in at : \A j \in at : k <= j
             IN  <<SubSeq(s, 1, i - 1)>> \o Split(SubSeq(s, i + 1, Len(s)), sep)

newKMSSigner(fault, creator) ==
    LET idSplit == Split(creator, "#")
    IN  IF Len(idSplit) # creatorParts THEN [signer |-> Nil, err |-> ErrWrongID(idSplit)]
        ELSE IF fault = "KMSGet" THEN [signer |-> Nil, err |-> ErrKMSGet]
        ELSE [signer |-> [keyHandle |-> idSplit[2]], err |-> NoErr]

\* kmsSigner.Sign: the error of crypto.Sign, unchanged
kmsSignerSign(fault) == IF fault = "Sign" THEN ErrCryptoSign ELSE NoErr

\* addLinkedDataProof that signs before it looks at the suite name
addLinkedDataProof_signsBeforeSuiteCheck(vp, o, fault) ==
    LET s == newKMSSigner(fault, o.VerificationMethod)
        signingCtx ==
            [VerificationMethod |-> o.VerificationMethod,
             SignatureRepresentation |-> "SignatureJWS",
             SignatureType |-> o.SignatureType,
             Suite |-> [name |-> o.SignatureType, signer |-> s.signer.keyHandle],
             Created |-> o.Created, Domain |-> o.Domain, Challenge |-> o.Challenge,
             Purpose |-> o.proofPurpose]
    IN  IF s.err # NoErr THEN [vp |-> Nil, err |-> s.err, arg |-> vp]
        ELSE LET r == AddLinkedDataProof(vp, signingCtx, kmsSignerSign(fault))
             IN  IF r.err # NoErr
                 THEN [vp |-> Nil, err |-> ErrAddProof \o r.err, arg |-> r.doc]
                 ELSE IF o.SignatureType \notin {Ed25519Signature2018, JSONWebSignature2020}
                 THEN [vp |-> Nil, err |-> ErrUnsupportedSignatureType(o.SignatureType),
                       arg |-> r.doc]
                 ELSE [vp |-> r.doc, err |-> NoErr, arg |-> r.doc]

\* addLinkedDataProof whose switch signs with the Ed25519 suite by default
addLinkedDataProof_unknownSuiteIgnored(vp, o, fault) ==
    LET s == newKMSSigner(fault, o.VerificationMethod)
        suiteName == IF o.SignatureType = JSONWebSignature2020
                     THEN JSONWebSignature2020 ELSE Ed25519Signature2018
        signingCtx ==
            [VerificationMethod |-> o.VerificationMethod,
             SignatureRepresentation |-> "SignatureJWS",
             SignatureType |-> o.SignatureType,
             Suite |-> [name |-> suiteName, signer |-> s.signer.keyHandle],
             Created |-> o.Created, Domain |-> o.Domain, Challenge |-> o.Challenge,
             Purpose |-> o.proofPurpose]
    IN  IF s.err # NoErr THEN [vp |-> Nil, err |-> s.err, arg |-> vp]
        ELSE LET r == AddLinkedDataProof(vp, signingCtx, kmsSignerSign(fault))
             IN  IF r.err # NoErr
                 THEN [vp |-> Nil, err |-> ErrAddProof \o r.err, arg |-> r.doc]
                 ELSE [vp |-> r.doc, err |-> NoErr, arg |-> r.doc]

\* addLinkedDataProof that asks for the proof-value representation
addLinkedDataProof_proofValueRepresentation(vp, o, fault) ==
    LET s == newKMSSigner(fault, o.VerificationMethod)
        signingCtx ==
            [VerificationMethod |-> o.VerificationMethod,
             SignatureRepresentation |-> "SignatureProofValue",
             SignatureType |-> o.SignatureType,
             Suite |-> [name |-> o.SignatureType, signer |-> s.signer.keyHandle],
             Created |-> o.Created, Domain |-> o.Domain, Challenge |-> o.Challenge,
             Purpose |-> o.proofPurpose]
    IN  IF s.err # NoErr THEN [vp |-> Nil, err |-> s.err, arg |-> vp]
        ELSE IF o.SignatureType \notin {Ed25519Signature2018, JSONWebSignature2020}
        THEN [vp |-> Nil, err |-> ErrUnsupportedSignatureType(o.SignatureType), arg |-> vp]
        ELSE LET r == AddLinkedDataProof(vp, signingCtx, kmsSignerSign(fault))
             IN  IF r.err # NoErr
                 THEN [vp |-> Nil, err |-> ErrAddProof \o r.err, arg |-> r.doc]
                 ELSE [vp |-> r.doc, err |-> NoErr, arg |-> r.doc]

\* addLinkedDataProof that signs a presentation of its own making
addLinkedDataProof_signsFreshPresentation(vp, o, fault) ==
    LET s == newKMSSigner(fault, o.VerificationMethod)
        signingCtx ==
            [VerificationMethod |-> o.VerificationMethod,
             SignatureRepresentation |-> "SignatureJWS",
             SignatureType |-> o.SignatureType,
             Suite |-> [name |-> o.SignatureType, signer |-> s.signer.keyHandle],
             Created |-> o.Created, Domain |-> o.Domain, Challenge |-> o.Challenge,
             Purpose |-> o.proofPurpose]
    IN  IF s.err # NoErr THEN [vp |-> Nil, err |-> s.err, arg |-> vp]
        ELSE IF o.SignatureType \notin {Ed25519Signature2018, JSONWebSignature2020}
        THEN [vp |-> Nil, err |-> ErrUnsupportedSignatureType(o.SignatureType), arg |-> vp]
        ELSE LET r == AddLinkedDataProof([vp EXCEPT !.Proofs = <<>>], signingCtx,
                                         kmsSignerSign(fault))
             IN  IF r.err # NoErr
                 THEN [vp |-> Nil, err |-> ErrAddProof \o r.err, arg |-> vp]
                 ELSE [vp |-> r.doc, err |-> NoErr, arg |-> r.doc]

\* vp: the returned presentation (Nil on error); arg: the presentation object
\* the caller passed, as the call leaves it
addLinkedDataProof(vp, o, fault) ==
    LET s == newKMSSigner(fault, o.VerificationMethod)
        signingCtx ==
            [VerificationMethod |-> o.VerificationMethod,
             SignatureRepresentation |-> "SignatureJWS",
             SignatureType |-> o.SignatureType,
             Suite |-> [name |-> o.SignatureType, signer |-> s.signer.keyHandle],
             Created |-> o.Created, Domain |-> o.Domain, Challenge |-> o.Challenge,
             Purpose |-> o.proofPurpose]
    IN  IF s.err # NoErr THEN [vp |-> Nil, err |-> s.err, arg |-> vp]
        ELSE IF o.SignatureType \notin {Ed25519Signature2018, JSONWebSignature2020}
        THEN [vp |-> Nil, err |-> ErrUnsupportedSignatureType(o.SignatureType), arg |-> vp]
        ELSE LET r == AddLinkedDataProof(vp, signingCtx, kmsSignerSign(fault))
             IN  IF r.err # NoErr
                 THEN [vp |-> Nil, err |-> ErrAddProof \o r.err, arg |-> r.doc]
                 ELSE [vp |-> r.doc, err |-> NoErr, arg |-> r.doc]

\* bytes: the marshalled presentation (Nil on error); arg: the presentation
\* object the caller passed, as the call leaves it (Nil when vp was nil);
\* panic: credentials[0] read from an empty list
createAndSignPresentation(credentials, vp, holder, o, fault) ==
    IF vp = Nil /\ Len(credentials) = 0 THEN
        [bytes |-> Nil, err |-> NoErr, arg |-> Nil, panic |-> TRUE]
    ELSE IF vp = Nil /\ fault = "Presentation" THEN
        [bytes |-> Nil, err |-> ErrPresentation, arg |-> Nil, panic |-> FALSE]
    ELSE IF vp = Nil /\ fault = "SetCredentials" THEN
        [bytes |-> Nil, err |-> ErrSetCredentials \o <<"set credentials failed">>,
         arg |-> Nil, panic |-> FALSE]
    ELSE
        LET vp1 == IF vp = Nil
                   THEN SetCredentials(Presentation(credentials[1]), credentials)
                   ELSE vp
            vp2 == [vp1 EXCEPT !.Holder = holder]
            r == addLinkedDataProof(vp2, o, fault)
            arg == IF vp = Nil THEN Nil ELSE r.arg
        IN  IF r.err # NoErr THEN
                [bytes |-> Nil, err |-> ErrSignVP \o r.err, arg |-> arg, panic |-> FALSE]
            ELSE IF fault = "MarshalJSON" THEN
                [bytes |-> Nil, err |-> ErrMarshal, arg |-> arg, panic |-> FALSE]
            ELSE
                [bytes |-> MarshalJSON(r.vp), err |-> NoErr, arg |-> arg, panic |-> FALSE]

-----------------------------------------------------------------------------
(* Proof verification, as the multi-proof example sets it up *)

\* the signers of the examples, named by the public key that verifies them
ExampleSigners == {"issuerPubKey", "ecdsaPubKey", "bbsPubKey"}

ExampleVMs == {<<"did:", "example:123456", "#", "key1">>,
               <<"did:", "example:123456", "#", "key2">>,
               <<"did:", "example:123456", "#", "key3">>}

\* the LinkedDataProofContext values the examples pass to AddLinkedDataProof
ExampleContexts ==
    {[VerificationMethod |-> vm,
      SignatureRepresentation |-> c.representation,
      SignatureType |-> c.type,
      Suite |-> [name |-> c.type, signer |-> c.signer],
      Created |-> issued, Domain |-> EmptyString, Challenge |-> EmptyString,
      Purpose |-> EmptyString] :
        vm \in ExampleVMs,
        c \in {[type |-> Ed25519Signature2018, signer |-> "issuerPubKey",
                representation |-> "SignatureJWS"],
               [type |-> JSONWebSignature2020, signer |-> "ecdsaPubKey",
                representation |-> "SignatureJWS"],
               [type |-> <<"BbsBlsSignature2020">>, signer |-> "bbsPubKey",
                representation |-> "SignatureProofValue"]}}

\* verifiable.WithEmbeddedSignatureSuites(ed25519Suite, jsonWebSignatureSuite)
EmbeddedSignatureSuites == {Ed25519Signature2018, JSONWebSignature2020}

ErrUnsupportedKeyID == <<"unsupported keyID">>
ErrMalformedKeyID == <<"wrong id to resolve">>
ErrSuiteNotSupported == <<"signature type is not supported">>
ErrInvalidSignature == <<"signature verification failed">>
ErrCheckProof == <<"check embedded proof">>

\* a fetcher whose two cases answer with each other's key
PublicKeyFetcher_keysSwapped(issuerID, keyID) ==
    IF keyID = <<"#", "key1">>
    THEN [Type |-> <<"JwsVerificationKey2020">>, Value |-> "ecdsaPubKey", err |-> NoErr]
    ELSE IF keyID = <<"#", "key2">>
    THEN [Type |-> <<"Ed25519Signature2018">>, Value |-> "issuerPubKey", err |-> NoErr]
    ELSE [Type |-> EmptyString, Value |-> "", err |-> ErrUnsupportedKeyID]

\* a fetcher that answers every unknown key id with the first key
PublicKeyFetcher_defaultKey(issuerID, keyID) ==
    IF keyID = <<"#", "key2">>
    THEN [Type |-> <<"JwsVerificationKey2020">>, Value |-> "ecdsaPubKey", err |-> NoErr]
    ELSE [Type |-> <<"Ed25519Signature2018">>, Value |-> "issuerPubKey", err |-> NoErr]

\* the public-key fetcher of the multi-proof example
PublicKeyFetcher(issuerID, keyID) ==
    IF keyID = <<"#", "key1">>
    THEN [Type |-> <<"Ed25519Signature2018">>, Value |-> "issuerPubKey", err |-> NoErr]
    ELSE IF keyID = <<"#", "key2">>
    THEN [Type |-> <<"JwsVerificationKey2020">>, Value |-> "ecdsaPubKey", err |-> NoErr]
    ELSE [Type |-> EmptyString, Value |-> "", err |-> ErrUnsupportedKeyID]

proofSignature(p) == IF "jws" \in DOMAIN p THEN p.jws ELSE p.proofValue

\* the check of one proof: its suite is known, the key of its own
\* verification method is fetched, and the signature verifies against it
checkProof(p) ==
    IF p.type \notin EmbeddedSignatureSuites THEN ErrSuiteNotSupported
    ELSE
        LET idSplit == Split(p.verificationMethod, "#")
            key == PublicKeyFetcher(idSplit[1], <<"#">> \o idSplit[2])
            signature == proofSignature(p)
        IN  IF Len(idSplit) # 2 THEN ErrMalformedKeyID
            ELSE IF key.err # NoErr THEN key.err
            ELSE IF signature.suite # p.type \/ signature.by # key.Value
                 THEN ErrInvalidSignature
            ELSE NoErr

\* the proofs are checked one after the other; the first failure is the result
RECURSIVE checkEmbeddedProofs(_, _)
checkEmbeddedProofs(proofs, i) ==
    IF i > Len(proofs) THEN NoErr
    ELSE LET e == checkProof(proofs[i])
         IN  IF e # NoErr THEN ErrCheckProof \o e
             ELSE checkEmbeddedProofs(proofs, i + 1)

\* verifiable.SingleKey(pubKey, pubKeyType): a fetcher that answers every
\* request with the one key
SingleKey(pubKey, pubKeyType) == [kind |-> "SingleKey", Type |-> pubKeyType, Value |-> pubKey]

\* the fetcher the multi-proof example writes out
ExampleFetcher == [kind |-> "PublicKeyFetcher"]

\* the fetchers the examples verify with
Fetchers ==
    {ExampleFetcher,
     SingleKey("issuerPubKey", <<"ED25519">>),
     SingleKey("ecdsaPubKey", <<"JwsVerificationKey2020">>),
     SingleKey("bbsPubKey", <<"Bls12381G2Key2020">>)}

\* verifiable.NewDIDKeyResolver(vdri).PublicKeyFetcher(): the key the issuer's
\* DID document lists under the key id, or the registry's error
DIDKeyResolver(resolveErr) == [kind |-> "DIDKeyResolver", err |-> resolveErr]

\* a call of the fetcher
fetch(fetcher, issuerID, keyID) ==
    IF fetcher.kind = "SingleKey"
    THEN [Type |-> fetcher.Type, Value |-> fetcher.Value, err |-> NoErr]
    ELSE IF fetcher.kind = "DIDKeyResolver"
    THEN [Type |-> <<"Ed25519VerificationKey", "2018">>, Value |-> Tail(keyID),
          err |-> fetcher.err]
    ELSE PublicKeyFetcher(issuerID, keyID)

\* the suites a parse knows without WithEmbeddedSignatureSuites
DefaultSignatureSuites ==
    {Ed25519Signature2018, JSONWebSignature2020, <<"BbsBlsSignature2020">>,
     <<"BbsBlsSignatureProof2020">>}

\* the check of one proof against the suites and the fetcher of the parse
verifyProof(p, suites, fetcher) ==
    IF p.type \notin suites THEN ErrSuiteNotSupported
    ELSE
        LET idSplit == Split(p.verificationMethod, "#")
            key == fetch(fetcher, idSplit[1], <<"#">> \o idSplit[2])
            signature == proofSignature(p)
        IN  IF Len(idSplit) # 2 THEN ErrMalformedKeyID
            ELSE IF key.err # NoErr THEN key.err
            ELSE IF signature.suite # p.type \/ signature.by # key.Value
                 THEN ErrInvalidSignature
            ELSE NoErr

RECURSIVE checkLinkedDataProof(_, _, _, _)
checkLinkedDataProof(proofs, i, suites, fetcher) ==
    IF i > Len(proofs) THEN NoErr
    ELSE LET e == verifyProof(proofs[i], suites, fetcher)
         IN  IF e # NoErr THEN ErrCheckProof \o e
             ELSE checkLinkedDataProof(proofs, i + 1, suites, fetcher)

\* one byte of the stored jws or proofValue flipped: a value that is no
\* key's signature
flipSignature(p) ==
    IF "jws" \in DOMAIN p
    THEN [p EXCEPT !.jws = [by |-> "nobody", suite |-> @.suite]]
    ELSE [p EXCEPT !.proofValue = [by |-> "nobody", suite |-> @.suite]]

\* the proofs of the bytes handed to the parse: index 0 leaves them as they are
alterProofs(proofs, index) ==
    [i \in 1..Len(proofs) |-> IF i = index THEN flipSignature(proofs[i]) ELSE proofs[i]]

-----------------------------------------------------------------------------
(* SpecProof: a document in hand, proofs added to it by the library call   *)
(* and by the controller, and its proofs verified                          *)

\* the verification methods resolution can hand to the controller's signing
SignVMs == KeyIDs \cup {id \o k : id \in DocIDs, k \in KeyIDs}

SignOpts ==
    [VerificationMethod : SignVMs,
     SignatureType : SignatureTypes,
     Created : {NilTime},
     Domain : {EmptyString},
     Challenge : {EmptyString},
     proofPurpose : {<<"authentication">>}]

InitProof ==
    /\ pc = "idle"
    /\ verifiableStore = EmptyStore
    /\ doc \in {ExampleCredential} \cup SuppliedPresentations
    /\ didDoc = Nil
    /\ opts = Nil
    /\ req = NoReq
    /\ ret = NoRet

\* vc.AddLinkedDataProof(ctx) of the examples
CredentialAddLinkedDataProof ==
    /\ pc = "idle"
    /\ doc.kind = "credential"
    /\ Len(doc.Proofs) < MaxProofs
    /\ \E ctx \in ExampleContexts :
          LET r == AddLinkedDataProof(doc, ctx, NoErr)
          IN  /\ doc' = r.doc
              /\ ret' = [err |-> r.err]
              /\ req' = [op |-> "AddLinkedDataProof", ctx |-> ctx]
    /\ pc' = "AddLinkedDataProof"
    /\ UNCHANGED <<verifiableStore, didDoc, opts>>

\* json.Marshal(vc) and verifiable.ParseCredential(vcBytes, ...) with the
\* embedded suites and the public-key fetcher of the multi-proof example
ParseCredential ==
    /\ pc = "idle"
    /\ doc.kind = "credential"
    /\ pc' = "ParseCredential"
    /\ ret' = [err |-> checkEmbeddedProofs(doc.Proofs, 1), bytes |-> MarshalJSON(doc)]
    /\ req' = [op |-> "ParseCredential"]
    /\ UNCHANGED <<verifiableStore, didDoc, opts, doc>>

\* json.Marshal(vc), the bytes altered or not on their way, and
\* verifiable.ParseCredential(vcBytes, WithPublicKeyFetcher(fetcher))
VerifyCredential ==
    /\ pc = "idle"
    /\ doc.kind = "credential"
    /\ Len(doc.Proofs) > 0
    /\ pc' = "VerifyCredential"
    /\ \E fetcher \in Fetchers, altered \in 0..Len(doc.Proofs) :
          /\ req' = [op |-> "VerifyCredential", fetcher |-> fetcher, altered |-> altered]
          /\ ret' = [err |-> checkLinkedDataProof(alterProofs(doc.Proofs, altered), 1,
                                                  DefaultSignatureSuites, fetcher)]
    /\ UNCHANGED <<verifiableStore, didDoc, opts, doc>>

\* createAndSignPresentation as parsePresentationRequest sets it up: the
\* supplied presentation and no credentials, or credentials and no presentation
CreateAndSignPresentation ==
    /\ pc = "idle"
    /\ doc.kind = "presentation" => Len(doc.Proofs) < MaxProofs
    /\ \E o \in SignOpts, holder \in DocIDs, fault \in Faults :
          LET supplied == doc.kind = "presentation"
              r == IF supplied
                   THEN createAndSignPresentation(<<>>, doc, holder, o, fault)
                   ELSE createAndSignPresentation(<<doc>>, Nil, holder, o, fault)
          IN  /\ doc' = IF supplied THEN r.arg ELSE doc
              /\ ret' = [err |-> r.err, bytes |-> r.bytes, panic |-> r.panic]
              /\ req' = [op |-> "createAndSignPresentation", opts |-> o,
                         holder |-> holder, fault |-> fault, supplied |-> supplied]
    /\ pc' = "createAndSignPresentation"
    /\ UNCHANGED <<verifiableStore, didDoc, opts>>

\* the caller takes the result and is ready for the next call
Return ==
    /\ pc # "idle"
    /\ pc' = "idle"
    /\ req' = NoReq
    /\ ret' = NoRet
    /\ UNCHANGED <<verifiableStore, didDoc, opts, doc>>

NextProof ==
    \/ CredentialAddLinkedDataProof
    \/ ParseCredential
    \/ VerifyCredential
    \/ CreateAndSignPresentation
    \/ Return

SpecProof == InitProof /\ [][NextProof]_vars

-----------------------------------------------------------------------------
(* Claims on proof construction and verification, checked under SpecProof *)

\* the call got as far as addLinkedDataProof
proofRequested ==
    /\ pc = "createAndSignPresentation"
    /\ req.supplied \/ req.fault \notin {"Presentation", "SetCredentials"}

supportedSuiteRequested ==
    req.opts.SignatureType \in {<<"Ed25519Signature2018">>, <<"JsonWebSignature2020">>}

\* the number of "#" in the requested verification method
separators ==
    Cardinality({i \in 1..Len(req.opts.VerificationMethod) :
                    req.opts.VerificationMethod[i] = "#"})

\* C7 as stated: a proof-construction request with an unsupported signature
\* type fails with the unsupported-suite error, whatever the other inputs are.
C7_UnsupportedSuiteNeverMasked ==
    (proofRequested /\ ~supportedSuiteRequested)
        => ret.err = <<"failed to sign vp", "signature type unsupported">>
                        \o req.opts.SignatureType

\* C7 amended: a proof-construction request with an unsupported signature
\* type always fails and returns no presentation.  The signer is constructed
\* before the suite name is looked at, so the failure is the wrong-id error
\* when the verification method does not hold exactly one "#", the key
\* manager's error when the key is not found, and the unsupported-suite error
\* in every other case.
C7_UnsupportedSuiteAlwaysFails ==
    (proofRequested /\ ~supportedSuiteRequested)
        => /\ ret.err # NoErr
           /\ ret.bytes = Nil
           /\ ret.err = IF separators # 1
                         THEN <<"failed to sign vp", "wrong id">>
                                 \o SubSeq(ret.err, 3, Len(ret.err) - 1)
                                 \o <<"to resolve">>
                         ELSE IF req.fault = "KMSGet"
                         THEN <<"failed to sign vp", "kms: key not found">>
                         ELSE <<"failed to sign vp", "signature type unsupported">>
                                 \o req.opts.SignatureType

C7_Witness ==
    /\ proofRequested
    /\ req.opts.SignatureType = <<"NotASuite">>
    /\ req.opts.VerificationMethod = EmptyString
    /\ ret.err = <<"failed to sign vp", "wrong id", "[", "]", "to resolve">>

\* C8: when proof construction fails (unsupported suite name, signer
\* construction failure, signing failure) the document's proof collection is
\* what it was before the call and no presentation is returned.
C8_FailedSigningLeavesProofs ==
    [][(pc' = "createAndSignPresentation"
          /\ HasPrefix(ret'.err, <<"failed to sign vp">>))
        => (doc'.Proofs = doc.Proofs /\ ret'.bytes = Nil)]_vars

C8_Witness ==
    /\ pc = "createAndSignPresentation"
    /\ req.supplied
    /\ req.fault = "Sign"
    /\ supportedSuiteRequested
    /\ ret.err = <<"failed to sign vp", "failed to add linked data proof",
                   "crypto: sign failed">>
    /\ doc.Proofs = <<SuppliedProof>>

\* the proofs of a marshalled document, in order, and the shape of its member
marshalledProofs(bytes) ==
    IF "proof" \notin DOMAIN bytes THEN <<>>
    ELSE IF "object" \in DOMAIN bytes.proof THEN <<bytes.proof.object>>
    ELSE bytes.proof.array

marshalledProofShape(bytes) ==
    IF "proof" \notin DOMAIN bytes THEN "absent"
    ELSE IF "object" \in DOMAIN bytes.proof THEN "object" ELSE "array"

proofShape(n) == IF n = 0 THEN "absent" ELSE IF n = 1 THEN "object" ELSE "array"

\* C9: the proof collection is append-only.  Every step keeps the proofs a
\* document had, in their order; a successful add puts exactly one proof, the
\* one built from the call's arguments, behind them, also behind the proofs of
\* a presentation the caller supplied; the marshalled document shows a single
\* proof object for one proof and a list from the second on.
C9_ProofsAppendOnly ==
    [][/\ Len(doc'.Proofs) >= Len(doc.Proofs)
       /\ SubSeq(doc'.Proofs, 1, Len(doc.Proofs)) = doc.Proofs
       /\ (pc' = "AddLinkedDataProof" /\ ret'.err = NoErr)
            => /\ Len(doc'.Proofs) = Len(doc.Proofs) + 1
               /\ doc'.Proofs[Len(doc'.Proofs)].verificationMethod
                      = req'.ctx.VerificationMethod
               /\ doc'.Proofs[Len(doc'.Proofs)].type = req'.ctx.SignatureType
       /\ (pc' = "createAndSignPresentation" /\ ret'.err = NoErr)
            => LET before == IF req'.supplied THEN doc.Proofs ELSE <<>>
                   after == marshalledProofs(ret'.bytes)
               IN  /\ Len(after) = Len(before) + 1
                   /\ SubSeq(after, 1, Len(before)) = before
                   /\ after[Len(after)].verificationMethod
                          = req'.opts.VerificationMethod
                   /\ after[Len(after)].type = req'.opts.SignatureType
                   /\ marshalledProofShape(ret'.bytes) = proofShape(Len(after))
                   /\ req'.supplied => doc'.Proofs = after
       /\ pc' = "ParseCredential"
            => /\ marshalledProofs(ret'.bytes) = doc.Proofs
               /\ marshalledProofShape(ret'.bytes) = proofShape(Len(doc.Proofs))
      ]_vars

C9_Witness ==
    /\ pc = "ParseCredential"
    /\ doc.kind = "credential"
    /\ Len(doc.Proofs) = 2
    /\ doc.Proofs[1].type = <<"Ed25519Signature2018">>
    /\ doc.Proofs[2].type = <<"BbsBlsSignature2020">>
    /\ marshalledProofs(ret.bytes) = doc.Proofs
    /\ marshalledProofShape(ret.bytes) = "array"

\* what the multi-proof example takes for a valid proof: the suite is one of
\* the two embedded suites, the key id is "#key1" and the proof was signed by
\* the issuer's Ed25519 key, or "#key2" and the ECDSA key
validProof(p) ==
    LET signature == IF "jws" \in DOMAIN p THEN p.jws ELSE p.proofValue
        keyID == SubSeq(p.verificationMethod, 3, 4)
    IN  /\ p.type \in {<<"Ed25519Signature2018">>, <<"JsonWebSignature2020">>}
        /\ signature.suite = p.type
        /\ \/ keyID = <<"#", "key1">> /\ signature.by = "issuerPubKey"
           \/ keyID = <<"#", "key2">> /\ signature.by = "ecdsaPubKey"

\* C10: verification of a document with N proofs succeeds only if every one
\* of them verifies against the key fetched for its own verification method;
\* one failing proof, or one key that cannot be fetched, fails the document.
C10_EveryProofMustVerify ==
    pc = "ParseCredential"
        => ((ret.err = NoErr) <=> (\A i \in 1..Len(doc.Proofs) : validProof(doc.Proofs[i])))

C10_Witness ==
    /\ pc = "ParseCredential"
    /\ Len(doc.Proofs) = 2
    /\ validProof(doc.Proofs[1])
    /\ ~validProof(doc.Proofs[2])
    /\ doc.Proofs[2].verificationMethod = <<"did:", "example:123456", "#", "key3">>
    /\ ret.err = <<"check embedded proof", "unsupported keyID">>

\* the proof holds its signature under jws and has no proofValue
jwsOnly(p) == "jws" \in DOMAIN p /\ "proofValue" \notin DOMAIN p

\* the proof holds its signature under proofValue and has no jws
proofValueOnly(p) == "proofValue" \in DOMAIN p /\ "jws" \notin DOMAIN p

\* C23: every proof on a document has exactly one of jws and proofValue: a
\* proof added with the JWS representation has jws, a proof added with another
\* representation (the BBS+ proofs among them) has proofValue, and the proof a
\* presentation is signed with by the controller has jws.
C23_OneSignatureMember ==
    [][/\ \A i \in 1..Len(doc'.Proofs) :
             jwsOnly(doc'.Proofs[i]) \/ proofValueOnly(doc'.Proofs[i])
       /\ pc' = "AddLinkedDataProof"
            => LET added == doc'.Proofs[Len(doc'.Proofs)]
               IN  IF req'.ctx.SignatureRepresentation = "SignatureJWS"
                   THEN jwsOnly(added) ELSE proofValueOnly(added)
       /\ (pc' = "createAndSignPresentation" /\ ret'.err = NoErr /\ ~ret'.panic)
            => /\ \A i \in 1..Len(marshalledProofs(ret'.bytes)) :
                     \/ jwsOnly(marshalledProofs(ret'.bytes)[i])
                     \/ proofValueOnly(marshalledProofs(ret'.bytes)[i])
               /\ jwsOnly(marshalledProofs(ret'.bytes)[Len(marshalledProofs(ret'.bytes))])
      ]_vars

C23_Witness ==
    /\ pc = "createAndSignPresentation"
    /\ ret.err = NoErr
    /\ ~req.supplied
    /\ Len(doc.Proofs) = 2
    /\ jwsOnly(doc.Proofs[1])
    /\ proofValueOnly(doc.Proofs[2])
    /\ doc.Proofs[2].type = <<"BbsBlsSignature2020">>
    /\ jwsOnly(marshalledProofs(ret.bytes)[1])

\* C15: a proof added to a credential with no purpose set carries the proof
\* purpose "assertionMethod", the caller's creation time, the suite name as its
\* type and the verification method as supplied; it is appended to the proofs
\* the credential had, and no other field of the credential changes.
C15_CredentialProofDefaults ==
    [][(pc' = "AddLinkedDataProof" /\ req'.ctx.Purpose = EmptyString)
         => LET added == doc'.Proofs[Len(doc'.Proofs)]
            IN  /\ ret'.err = NoErr
                /\ doc'.Proofs = Append(doc.Proofs, added)
                /\ added.proofPurpose = <<"assertionMethod">>
                /\ added.created = req'.ctx.Created
                /\ added.type = req'.ctx.Suite.name
                /\ added.verificationMethod = req'.ctx.VerificationMethod
                /\ doc' = [doc EXCEPT !.Proofs = doc'.Proofs]]_vars

C15_Witness ==
    /\ pc = "AddLinkedDataProof"
    /\ req.ctx.Purpose = EmptyString
    /\ req.ctx.Created = issued
    /\ doc.ID = <<"http://example.edu/credentials/1872">>
    /\ Len(doc.Proofs) = 1
    /\ doc.Proofs[1].proofPurpose = <<"assertionMethod">>
    /\ doc.Proofs[1].created = <<"2010-01-01T19:23:24Z">>
    /\ doc.Proofs[1].type = Ed25519Signature2018
    /\ doc.Proofs[1].verificationMethod = <<"did:", "example:123456", "#", "key1">>

-----------------------------------------------------------------------------
(* Claims on verification after signing, checked under SpecProof *)

\* the public key that verifies what the signer of a proof signs
signerKey(p) == IF "jws" \in DOMAIN p THEN p.jws.by ELSE p.proofValue.by

\* the key the fetcher of the call answers with for a proof, "" for none
fetchedKey(p) ==
    IF req.fetcher.kind = "SingleKey" THEN req.fetcher.Value
    ELSE IF SubSeq(p.verificationMethod, 3, 4) = <<"#", "key1">> THEN "issuerPubKey"
    ELSE IF SubSeq(p.verificationMethod, 3, 4) = <<"#", "key2">> THEN "ecdsaPubKey"
    ELSE ""

signerKeysFetched == \A i \in 1..Len(doc.Proofs) : fetchedKey(doc.Proofs[i]) = signerKey(doc.Proofs[i])

\* C11: for each of the three suites, a document as addProof returned it
\* verifies when the fetcher answers with the signer's public key for every
\* proof; it fails with a verification error when a stored jws or proofValue was
\* altered, and when the fetcher answers with another key or with none.
C11_SignVerifyRoundTrip ==
    pc = "VerifyCredential"
        => /\ (req.altered = 0 /\ signerKeysFetched) => ret.err = NoErr
           /\ (req.altered # 0 \/ ~signerKeysFetched)
                => (ret.err # NoErr /\ HasPrefix(ret.err, <<"check embedded proof">>))

C11_Witness ==
    /\ pc = "VerifyCredential"
    /\ Len(doc.Proofs) = 1
    /\ doc.Proofs[1].type = <<"BbsBlsSignature2020">>
    /\ req.fetcher = SingleKey("bbsPubKey", <<"Bls12381G2Key2020">>)
    /\ req.altered = 1
    /\ ret.err = <<"check embedded proof", "signature verification failed">>

-----------------------------------------------------------------------------
(* Claims on resolution and the signer, checked under SpecResolve *)

\* the verification method a successful resolution returned
resolvedVM == IF pc = "prepareOpts" THEN ret.opts.VerificationMethod ELSE ret.vm

\* C26: every verification method id that resolution returns successfully,
\* from the authentication methods or from the flat key list, is accepted by
\* newKMSSigner: it splits at "#" into exactly two parts, whatever the key ids
\* of the document are.
C26_ResolvedIDAcceptedBySigner ==
    (pc \in {"prepareOpts", "getDefaultVerificationMethod"} /\ ret.err = NoErr)
        => /\ Len(Split(resolvedVM, "#")) = creatorParts
           /\ newKMSSigner("none", resolvedVM).err = NoErr

-----------------------------------------------------------------------------
(* The presentation commands *)

InvalidRequestErrorCode == "InvalidRequestErrorCode"
GeneratePresentationErrorCode == "GeneratePresentationErrorCode"
GeneratePresentationByIDErrorCode == "GeneratePresentationByIDErrorCode"
NoCode == ""

errEmptyCredentialID == <<"credential id is mandatory">>
errEmptyDID == <<"did is mandatory">>

ErrDecode == <<"unexpected end of JSON input">>
ErrDIDNotFound == <<"did not found">>
ErrDataNotFound == <<"data not found">>
ErrNewCredential == <<"decode new credential">>
ErrNewPresentation == <<"decode new presentation">>

\* command.NewValidationError(code, err) returned, nothing written to rw
ValidationError(code, err) == [code |-> code, err |-> err, bytes |-> Nil, panic |-> FALSE]

\* command.WriteNillableResponse(rw, &Presentation{VerifiablePresentation: vp}) and nil returned
Response(vp) == [code |-> NoCode, err |-> NoErr, bytes |-> vp, panic |-> FALSE]

\* a run-time panic in the handler (credentials[0] of an empty list, a field
\* read through a nil pointer): nothing is returned
Panic == [code |-> NoCode, err |-> NoErr, bytes |-> Nil, panic |-> TRUE]

\* verifiable.NewCredential(vcRaw, credOpts...): the decoding, and the check of
\* the embedded proofs unless credOpts disable it
NewCredential(vcRaw, disabledProofCheck, fault) ==
    IF fault = "NewCredential" THEN ErrNewCredential
    ELSE IF disabledProofCheck THEN NoErr
    ELSE checkLinkedDataProof(vcRaw.Proofs, 1, DefaultSignatureSuites,
                              DIDKeyResolver(IF fault = "ResolveKey"
                                             THEN ErrDIDNotFound ELSE NoErr))

\* the loop over request.VerifiableCredentials: the first error ends it
RECURSIVE parseCredentials(_, _, _, _)
parseCredentials(vcs, i, skipVerify, fault) ==
    IF i > Len(vcs) THEN NoErr
    ELSE LET e == NewCredential(vcs[i], skipVerify, fault)
         IN  IF e # NoErr THEN <<"parse credential failed">> \o e
             ELSE parseCredentials(vcs, i + 1, skipVerify, fault)

\* credentials: the parsed credentials; presentation: the parsed presentation,
\* Nil when credentials are given; opts: the prepared options; panic:
\* request.SignatureType read through a nil request.ProofOptions
parsePresentationRequest(request, d, fault) ==
    LET failed(e) == [credentials |-> <<>>, presentation |-> Nil, opts |-> Nil, err |-> e,
                      panic |-> FALSE]
        parsed == parseCredentials(request.VerifiableCredentials, 1, request.SkipVerify,
                                   fault)
    IN  IF Len(request.VerifiableCredentials) = 0 /\ request.Presentation = Nil THEN
            failed(<<"invalid request, no valid credentials/presentation found">>)
        ELSE IF request.ProofOptions = Nil THEN
            [credentials |-> <<>>, presentation |-> Nil, opts |-> Nil, err |-> NoErr,
             panic |-> TRUE]
        ELSE IF request.ProofOptions.SignatureType = EmptyString THEN
            failed(<<"invalid request, signature type empty">>)
        ELSE IF Len(request.VerifiableCredentials) > 0 /\ parsed # NoErr THEN
            failed(parsed)
        ELSE IF Len(request.VerifiableCredentials) = 0 /\ fault = "NewPresentation" THEN
            failed(<<"parse presentation failed">> \o ErrNewPresentation)
        ELSE
            LET r == prepareOpts(request.ProofOptions, d)
            IN  IF r.err # NoErr
                THEN failed(<<"failed to prepare proof options">> \o r.err)
                ELSE [credentials |-> request.VerifiableCredentials,
                      presentation |-> IF Len(request.VerifiableCredentials) > 0
                                       THEN Nil ELSE request.Presentation,
                      opts |-> r.opts, err |-> NoErr, panic |-> FALSE]

generatePresentation(vcs, p, holder, o, fault) ==
    LET r == createAndSignPresentation(vcs, p, holder, o, fault)
    IN  IF r.panic THEN Panic
        ELSE IF r.err # NoErr
        THEN ValidationError(GeneratePresentationByIDErrorCode, <<"prepare vp">> \o r.err)
        ELSE Response(r.bytes)

\* opts: the ProofOptions handed to addLinkedDataProof, Nil when it is not reached
createAndSignPresentationByID(vc, d, signatureType, fault) ==
    LET pk == getDefaultVerificationMethod(d)
        o == [EmptyProofOptions EXCEPT !.VerificationMethod = pk.vm,
                                       !.SignatureType = signatureType]
        r == addLinkedDataProof(Presentation(vc), o, fault)
    IN  IF pk.err # NoErr THEN [bytes |-> Nil, err |-> pk.err, opts |-> Nil]
        ELSE IF fault = "Presentation" THEN
            [bytes |-> Nil, err |-> <<"failed to create vp by ID">> \o ErrPresentation,
             opts |-> Nil]
        ELSE IF r.err # NoErr THEN
            [bytes |-> Nil, err |-> ErrSignVPByID \o r.err, opts |-> o]
        ELSE IF fault = "MarshalJSON" THEN [bytes |-> Nil, err |-> ErrMarshal, opts |-> o]
        ELSE [bytes |-> MarshalJSON(r.vp), err |-> NoErr, opts |-> o]

generatePresentationByID(vc, d, signatureType, fault) ==
    LET r == createAndSignPresentationByID(vc, d, signatureType, fault)
    IN  IF r.err # NoErr
        THEN ValidationError(GeneratePresentationByIDErrorCode, <<"prepare vp by id">> \o r.err)
        ELSE Response(r.bytes)

-----------------------------------------------------------------------------
(* The record store behind the commands *)

\* verifiableStore.SaveCredential(name, vc) and SavePresentation(name, vp):
\* the document is put under its id and a name record pointing at that id
\* under its name, each replacing what the key held; a failing store writes
\* nothing
verifiableStoreSave(store, name, d, fault) ==
    LET put(docs) == {r \in docs : r.ID # d.ID} \cup {[ID |-> d.ID, doc |-> d]}
        name_(records) == {r \in records : r.Name # name}
                              \cup {[Name |-> name, ID |-> d.ID]}
    IN  IF fault = "Put" THEN [store |-> store, err |-> <<"failed to put in store">>]
        ELSE IF d.kind = "credential" THEN
            [store |-> [store EXCEPT !.credentials = put(@),
                                     !.credentialRecords = name_(@)],
             err |-> NoErr]
        ELSE
            [store |-> [store EXCEPT !.presentations = put(@),
                                     !.presentationRecords = name_(@)],
             err |-> NoErr]

-----------------------------------------------------------------------------
(* Spec: the two presentation commands called with every request within    *)
(* the bounds; didDoc is the DID document registered for the request's DID, *)
(* verifiableStore holds the credential stored under the request's id      *)

\* ProofOptions is taken as present in every request
RequestProofOptions ==
    [VerificationMethod : KeyIDs,
     SignatureType : SignatureTypes,
     Created : {NilTime},
     Domain : {EmptyString},
     Challenge : {EmptyString},
     proofPurpose : {EmptyString}]

\* credentials that carry a proof when they are supplied
ProvedCredential == [ExampleCredential EXCEPT !.Proofs = <<SuppliedProof>>]
ForgedCredential ==
    [ExampleCredential EXCEPT !.ID = <<"http://example.edu/credentials/58473">>,
                              !.Proofs = <<ForgedProof>>]

\* every combination of credentials, presentation and proof options with
\* documents that verify, the documents that do not verify with SkipVerify
\* set and not set, and the requests that hold none of the proof options, in
\* which the embedded *ProofOptions is nil
PresentationRequests ==
    [VerifiableCredentials : {<<>>, <<ExampleCredential>>},
     Presentation : {Nil, Document("presentation", <<"urn:vp:1">>, <<SuppliedProof>>)},
     DID : DocIDs,
     ProofOptions : RequestProofOptions,
     SkipVerify : {FALSE}]
    \cup
    [VerifiableCredentials : {<<>>, <<ProvedCredential>>, <<ForgedCredential>>,
                              <<ProvedCredential, ForgedCredential>>},
     Presentation : {Nil, Document("presentation", <<"urn:vp:2">>, <<ForgedProof>>)},
     DID : DocIDs,
     ProofOptions : {o \in RequestProofOptions :
                        /\ o.VerificationMethod = EmptyString
                        /\ o.SignatureType = Ed25519Signature2018},
     SkipVerify : BOOLEAN]
    \cup
    [VerifiableCredentials : {<<>>, <<ExampleCredential>>},
     Presentation : {Nil, Document("presentation", <<"urn:vp:1">>, <<SuppliedProof>>)},
     DID : DocIDs,
     ProofOptions : {Nil},
     SkipVerify : {FALSE}]

PresentationRequestsByID ==
    [ID : {EmptyString, ExampleCredential.ID},
     DID : {EmptyString} \cup DocIDs,
     SignatureType : SignatureTypes]

\* where the DID document of a request is found
Lookups == {"vdri", "store", "none"}

\* the capability calls a GeneratePresentation request can see fail
RequestFaults(request) ==
    IF request.ProofOptions = Nil THEN {"none"}
    ELSE IF Len(request.VerifiableCredentials) > 0
    THEN {"none", "NewCredential", "Presentation", "SetCredentials", "KMSGet", "Sign",
          "MarshalJSON"}
         \cup IF request.SkipVerify \/ request.VerifiableCredentials[1].Proofs = <<>>
              THEN {} ELSE {"ResolveKey"}
    ELSE IF request.Presentation # Nil
    THEN {"none", "NewPresentation", "KMSGet", "Sign", "MarshalJSON"}
    ELSE {"none"}

Init ==
    /\ pc = "idle"
    /\ verifiableStore =
           verifiableStoreSave(EmptyStore, <<"vc1">>, ExampleCredential, "none").store
    /\ didDoc \in Docs
    /\ doc = ExampleCredential
    /\ opts = Nil
    /\ req = NoReq
    /\ ret = NoRet

\* a request body that does not decode
GeneratePresentationUndecodable ==
    /\ pc = "idle"
    /\ pc' = "GeneratePresentation"
    /\ req' = [op |-> "GeneratePresentation", fault |-> "Decode"]
    /\ ret' = ValidationError(InvalidRequestErrorCode, <<"request decode">> \o ErrDecode)
    /\ UNCHANGED <<verifiableStore, didDoc, opts, doc>>

GeneratePresentation ==
    /\ pc = "idle"
    /\ pc' = "GeneratePresentation"
    /\ \E request \in PresentationRequests, found \in Lookups :
       \E fault \in IF found = "none" THEN {"none"} ELSE RequestFaults(request) :
          /\ req' = [op |-> "GeneratePresentation", request |-> request,
                     found |-> found, fault |-> fault]
          /\ ret' =
               IF found = "none" THEN
                   ValidationError(GeneratePresentationErrorCode,
                       <<"generate vp - failed to get did doc from store or vdri">>
                           \o ErrDIDNotFound)
               ELSE
                   LET parsed == parsePresentationRequest(request, didDoc, fault)
                   IN  IF parsed.panic THEN Panic
                       ELSE IF parsed.err # NoErr THEN
                           ValidationError(GeneratePresentationErrorCode,
                               <<"generate vp - parse presentation request">> \o parsed.err)
                       ELSE generatePresentation(parsed.credentials, parsed.presentation,
                                                 didDoc.ID, parsed.opts, fault)
    /\ UNCHANGED <<verifiableStore, didDoc, opts, doc>>

\* a request body that does not decode
GeneratePresentationByIDUndecodable ==
    /\ pc = "idle"
    /\ pc' = "GeneratePresentationByID"
    /\ req' = [op |-> "GeneratePresentationByID", fault |-> "Decode"]
    /\ ret' = ValidationError(InvalidRequestErrorCode, <<"request decode">> \o ErrDecode)
    /\ UNCHANGED <<verifiableStore, didDoc, opts, doc>>

GeneratePresentationByID ==
    /\ pc = "idle"
    /\ pc' = "GeneratePresentationByID"
    /\ \E request \in PresentationRequestsByID :
       \E fault \in IF request.ID = EmptyString \/ request.DID = EmptyString
                    THEN {"none"}
                    ELSE {"none", "GetCredential", "GetDID", "Presentation", "KMSGet",
                          "Sign", "MarshalJSON"} :
          /\ req' = [op |-> "GeneratePresentationByID", request |-> request,
                     fault |-> fault]
          /\ ret' =
               IF request.ID = EmptyString THEN
                   ValidationError(InvalidRequestErrorCode, errEmptyCredentialID)
               ELSE IF request.DID = EmptyString THEN
                   ValidationError(InvalidRequestErrorCode, errEmptyDID)
               ELSE
               LET stored == {r \in verifiableStore.credentials : r.ID = request.ID}
               IN  IF fault = "GetCredential" \/ stored = {} THEN
                       ValidationError(GeneratePresentationByIDErrorCode,
                                       <<"get vc by id">> \o ErrDataNotFound)
                   ELSE IF fault = "GetDID" THEN
                       ValidationError(GeneratePresentationErrorCode,
                           <<"failed to get did doc from store">> \o ErrDIDNotFound)
                   ELSE generatePresentationByID((CHOOSE r \in stored : TRUE).doc, didDoc,
                                                 request.SignatureType, fault)
    /\ UNCHANGED <<verifiableStore, didDoc, opts, doc>>

Next ==
    \/ GeneratePresentationUndecodable
    \/ GeneratePresentation
    \/ GeneratePresentationByIDUndecodable
    \/ GeneratePresentationByID
    \/ Return

Spec == Init /\ [][Next]_vars

-----------------------------------------------------------------------------
(* Claims on the presentation commands, checked under Spec *)

\* a presentation command answered with a signed presentation, and the request
\* named no verification method
signedWithDefaultMethod ==
    /\ pc \in {"GeneratePresentation", "GeneratePresentationByID"}
    /\ "request" \in DOMAIN req
    /\ ret.err = NoErr
    /\ ~ret.panic
    /\ pc = "GeneratePresentation"
         => req.request.ProofOptions.VerificationMethod = EmptyString

\* the proof the command added: the last one of the returned presentation
addedProof == marshalledProofs(ret.bytes)[Len(marshalledProofs(ret.bytes))]

\* C3: on both presentation-signing paths a document that lists an
\* authentication method is signed with its first listed authentication
\* method (its id as listed, or qualified with the document id), never with a
\* key picked from the flat public-key list.
C3_AuthenticationMethodBeforeFlatKeys ==
    (signedWithDefaultMethod /\ Len(didDoc.Authentication) > 0)
        => addedProof.verificationMethod
              \in {didDoc.Authentication[1].PublicKey.ID,
                   didDoc.ID \o didDoc.Authentication[1].PublicKey.ID}

\* the proofs of the documents a GeneratePresentation request is built from:
\* those of its credentials, or those of its presentation when it has none
RECURSIVE suppliedCredentialProofs(_, _)
suppliedCredentialProofs(vcs, i) ==
    IF i > Len(vcs) THEN <<>> ELSE vcs[i].Proofs \o suppliedCredentialProofs(vcs, i + 1)

suppliedProofs(request) ==
    IF Len(request.VerifiableCredentials) > 0
    THEN suppliedCredentialProofs(request.VerifiableCredentials, 1)
    ELSE IF request.Presentation # Nil THEN request.Presentation.Proofs
    ELSE <<>>

\* the proof verifies against the key its issuer's DID document lists
verifiesByDID(p) == verifyProof(p, DefaultSignatureSuites, DIDKeyResolver(NoErr)) = NoErr

\* C12: unless the request sets SkipVerify, GeneratePresentation signs only
\* after the proofs of every supplied credential and of a supplied
\* presentation have verified.
C12_SignsOnlyVerifiedDocuments ==
    (/\ pc = "GeneratePresentation"
     /\ "request" \in DOMAIN req
     /\ ~req.request.SkipVerify
     /\ ret.err = NoErr
     /\ ~ret.panic)
        => \A i \in 1..Len(suppliedProofs(req.request)) :
              verifiesByDID(suppliedProofs(req.request)[i])

\* a presentation command answered with a signed presentation
signedPresentation ==
    /\ pc \in {"GeneratePresentation", "GeneratePresentationByID"}
    /\ "request" \in DOMAIN req
    /\ ret.err = NoErr
    /\ ~ret.panic

\* C14: the proof GeneratePresentation attaches and the proof
\* GeneratePresentationByID attaches both carry the proof purpose
\* "authentication".
C14_PresentationProofPurposeAuthentication ==
    signedPresentation => addedProof.proofPurpose = <<"authentication">>

\* a capability the command called answered with an error: the DID resolver
\* (found is not "vdri"), or the store, the key manager, the signer or the
\* codec the fault names
capabilityFailed ==
    /\ pc \in {"GeneratePresentation", "GeneratePresentationByID"}
    /\ "request" \in DOMAIN req
    /\ \/ req.fault # "none"
       \/ pc = "GeneratePresentation" /\ req.found # "vdri"

\* C16: an error of an external capability always reaches the caller as the
\* command's failure; no capability is replaced by another source and no
\* capability error is discarded, a DID-resolution failure in
\* GeneratePresentation included.
C16_CapabilityErrorsReachCaller ==
    capabilityFailed => ret.err # NoErr

\* the suite name a presentation command was asked to sign with
requestedSuite ==
    IF pc = "GeneratePresentationByID" THEN req.request.SignatureType
    ELSE IF req.request.ProofOptions = Nil THEN EmptyString
    ELSE req.request.ProofOptions.SignatureType

\* C24: at the presentation commands the lookup of a suite by name succeeds
\* for each of "Ed25519Signature2018", "JsonWebSignature2020" and
\* "BbsBlsSignature2020": no request naming one of them is answered with the
\* unsupported-signature-type error.
C24_RequiredSuitesFound ==
    (/\ pc \in {"GeneratePresentation", "GeneratePresentationByID"}
     /\ "request" \in DOMAIN req
     /\ requestedSuite \in {Ed25519Signature2018, JSONWebSignature2020,
                            <<"BbsBlsSignature2020">>})
        => \A i \in 1..Len(ret.err) : ret.err[i] # "signature type unsupported"

\* C25: no command aborts: every call of a presentation command ends with a
\* response or an error value, and whenever parsePresentationRequest succeeds
\* with a nil presentation it returns at least one credential, so that
\* credentials[0] is read from a non-empty list only.
C25_NoCommandAborts ==
    (pc \in {"GeneratePresentation", "GeneratePresentationByID"})
        => /\ ~ret.panic
           /\ (ret.err # NoErr) # (ret.bytes # Nil)
           /\ (pc = "GeneratePresentation" /\ "request" \in DOMAIN req /\ req.found # "none")
                => LET parsed == parsePresentationRequest(req.request, didDoc, req.fault)
                   IN  (parsed.err = NoErr /\ parsed.presentation = Nil)
                          => Len(parsed.credentials) > 0

\* C27: each generate command reports its failures under its own error code:
\* a failure of GeneratePresentation carries InvalidRequestErrorCode or
\* GeneratePresentationErrorCode, a failure of GeneratePresentationByID
\* InvalidRequestErrorCode or GeneratePresentationByIDErrorCode.
C27_FailuresUnderOwnErrorCode ==
    /\ (pc = "GeneratePresentation" /\ ret.err # NoErr)
          => ret.code \in {InvalidRequestErrorCode, GeneratePresentationErrorCode}
    /\ (pc = "GeneratePresentationByID" /\ ret.err # NoErr)
          => ret.code \in {InvalidRequestErrorCode, GeneratePresentationByIDErrorCode}

-----------------------------------------------------------------------------
(* The record commands: credentials and presentations saved under a name   *)
(* and read back by id, by name or as the list of name records             *)

ValidateCredentialErrorCode == "ValidateCredentialErrorCode"
SaveCredentialErrorCode == "SaveCredentialErrorCode"
GetCredentialErrorCode == "GetCredentialErrorCode"
GetCredentialByNameErrorCode == "GetCredentialByNameErrorCode"
SavePresentationErrorCode == "SavePresentationErrorCode"
GetPresentationErrorCode == "GetPresentationErrorCode"
GetCredentialsErrorCode == "GetCredentialsErrorCode"
GetPresentationsErrorCode == "GetPresentationsErrorCode"

errEmptyCredentialName == <<"credential name is mandatory">>
errEmptyPresentationName == <<"presentation name is mandatory">>
errEmptyPresentationID == <<"presentation id is mandatory">>

ValidateCredential ==
    /\ pc = "idle"
    /\ pc' = "ValidateCredential"
    /\ \E fault \in {"none", "Decode", "NewCredential"} :
          /\ req' = [op |-> "ValidateCredential",
                     request |-> [VerifiableCredential |-> ExampleCredential],
                     fault |-> fault]
          /\ ret' =
               IF fault = "Decode" THEN
                   ValidationError(InvalidRequestErrorCode, <<"request decode">> \o ErrDecode)
               ELSE IF fault = "NewCredential" THEN
                   ValidationError(ValidateCredentialErrorCode,
                                   <<"validate vc">> \o ErrNewCredential)
               ELSE Response(<<"{}">>)
    /\ UNCHANGED <<verifiableStore, didDoc, opts, doc>>

\* SaveCredential with the store call moved ahead of the document parsing
SaveCredential_savesBeforeParsing ==
    /\ pc = "idle"
    /\ pc' = "SaveCredential"
    /\ \E request \in [Name : {EmptyString, <<"vc1">>, <<"vc2">>},
                       VerifiableCredential : {ExampleCredential, ProvedCredential}],
          fault \in {"none", "Decode", "NewCredential", "Put"} :
          LET saved == verifiableStoreSave(verifiableStore, request.Name,
                                           request.VerifiableCredential, fault)
          IN  /\ req' = [op |-> "SaveCredential", request |-> request, fault |-> fault]
              /\ IF fault = "Decode" THEN
                     /\ ret' = ValidationError(InvalidRequestErrorCode,
                                               <<"request decode">> \o ErrDecode)
                     /\ UNCHANGED verifiableStore
                 ELSE IF request.Name = EmptyString THEN
                     /\ ret' = ValidationError(SaveCredentialErrorCode,
                                               errEmptyCredentialName)
                     /\ UNCHANGED verifiableStore
                 ELSE
                     /\ ret' = IF saved.err # NoErr
                               THEN ValidationError(SaveCredentialErrorCode,
                                                    <<"save vc">> \o saved.err)
                               ELSE IF fault = "NewCredential"
                               THEN ValidationError(SaveCredentialErrorCode,
                                                    <<"parse vc">> \o ErrNewCredential)
                               ELSE Response(<<"{}">>)
                     /\ verifiableStore' = saved.store
    /\ UNCHANGED <<didDoc, opts, doc>>

SaveCredential ==
    /\ pc = "idle"
    /\ pc' = "SaveCredential"
    /\ \E request \in [Name : {EmptyString, <<"vc1">>, <<"vc2">>},
                       VerifiableCredential : {ExampleCredential, ProvedCredential}],
          fault \in {"none", "Decode", "NewCredential", "Put"} :
          LET saved == verifiableStoreSave(verifiableStore, request.Name,
                                           request.VerifiableCredential, fault)
          IN  /\ req' = [op |-> "SaveCredential", request |-> request, fault |-> fault]
              /\ IF fault = "Decode" THEN
                     /\ ret' = ValidationError(InvalidRequestErrorCode,
                                               <<"request decode">> \o ErrDecode)
                     /\ UNCHANGED verifiableStore
                 ELSE IF request.Name = EmptyString THEN
                     /\ ret' = ValidationError(SaveCredentialErrorCode,
                                               errEmptyCredentialName)
                     /\ UNCHANGED verifiableStore
                 ELSE IF fault = "NewCredential" THEN
                     /\ ret' = ValidationError(SaveCredentialErrorCode,
                                               <<"parse vc">> \o ErrNewCredential)
                     /\ UNCHANGED verifiableStore
                 ELSE
                     /\ ret' = IF saved.err # NoErr
                               THEN ValidationError(SaveCredentialErrorCode,
                                                    <<"save vc">> \o saved.err)
                               ELSE Response(<<"{}">>)
                     /\ verifiableStore' = saved.store
    /\ UNCHANGED <<didDoc, opts, doc>>

SavePresentation ==
    /\ pc = "idle"
    /\ pc' = "SavePresentation"
    /\ \E request \in [Name : {EmptyString, <<"vp1">>, <<"vp2">>},
                       VerifiablePresentation : SuppliedPresentations],
          fault \in {"none", "Decode", "NewPresentation", "Put"} :
          LET saved == verifiableStoreSave(verifiableStore, request.Name,
                                           request.VerifiablePresentation, fault)
          IN  /\ req' = [op |-> "SavePresentation", request |-> request, fault |-> fault]
              /\ IF fault = "Decode" THEN
                     /\ ret' = ValidationError(InvalidRequestErrorCode,
                                               <<"request decode">> \o ErrDecode)
                     /\ UNCHANGED verifiableStore
                 ELSE IF request.Name = EmptyString THEN
                     /\ ret' = ValidationError(SavePresentationErrorCode,
                                               errEmptyPresentationName)
                     /\ UNCHANGED verifiableStore
                 ELSE IF fault = "NewPresentation" THEN
                     /\ ret' = ValidationError(SavePresentationErrorCode,
                                               <<"parse vp">> \o ErrNewPresentation)
                     /\ UNCHANGED verifiableStore
                 ELSE
                     /\ ret' = IF saved.err # NoErr
                               THEN ValidationError(SavePresentationErrorCode,
                                                    <<"save vp">> \o saved.err)
                               ELSE Response(<<"{}">>)
                     /\ verifiableStore' = saved.store
    /\ UNCHANGED <<didDoc, opts, doc>>

GetCredential ==
    /\ pc = "idle"
    /\ pc' = "GetCredential"
    /\ \E request \in [ID : {EmptyString, ExampleCredential.ID}],
          fault \in {"none", "Decode", "Get", "MarshalJSON"} :
          LET stored == {r \in verifiableStore.credentials : r.ID = request.ID}
          IN  /\ req' = [op |-> "GetCredential", request |-> request, fault |-> fault]
              /\ ret' =
                   IF fault = "Decode" THEN
                       ValidationError(InvalidRequestErrorCode,
                                       <<"request decode">> \o ErrDecode)
                   ELSE IF request.ID = EmptyString THEN
                       ValidationError(InvalidRequestErrorCode, errEmptyCredentialID)
                   ELSE IF fault = "Get" \/ stored = {} THEN
                       ValidationError(GetCredentialErrorCode,
                                       <<"get vc">> \o ErrDataNotFound)
                   ELSE IF fault = "MarshalJSON" THEN
                       ValidationError(GetCredentialErrorCode,
                                       <<"marshal vc">> \o ErrMarshal)
                   ELSE Response([VerifiableCredential |->
                                      MarshalJSON((CHOOSE r \in stored : TRUE).doc)])
    /\ UNCHANGED <<verifiableStore, didDoc, opts, doc>>

GetPresentation ==
    /\ pc = "idle"
    /\ pc' = "GetPresentation"
    /\ \E request \in [ID : {EmptyString} \cup {vp.ID : vp \in SuppliedPresentations}],
          fault \in {"none", "Decode", "Get", "MarshalJSON"} :
          LET stored == {r \in verifiableStore.presentations : r.ID = request.ID}
          IN  /\ req' = [op |-> "GetPresentation", request |-> request, fault |-> fault]
              /\ ret' =
                   IF fault = "Decode" THEN
                       ValidationError(InvalidRequestErrorCode,
                                       <<"request decode">> \o ErrDecode)
                   ELSE IF request.ID = EmptyString THEN
                       ValidationError(InvalidRequestErrorCode, errEmptyPresentationID)
                   ELSE IF fault = "Get" \/ stored = {} THEN
                       ValidationError(GetPresentationErrorCode,
                                       <<"get vp">> \o ErrDataNotFound)
                   ELSE IF fault = "MarshalJSON" THEN
                       ValidationError(GetPresentationErrorCode,
                                       <<"marshal vp">> \o ErrMarshal)
                   ELSE Response([VerifiablePresentation |->
                                      MarshalJSON((CHOOSE r \in stored : TRUE).doc)])
    /\ UNCHANGED <<verifiableStore, didDoc, opts, doc>>

GetCredentialByName ==
    /\ pc = "idle"
    /\ pc' = "GetCredentialByName"
    /\ \E request \in [Name : {EmptyString, <<"vc1">>, <<"vc2">>}],
          fault \in {"none", "Decode", "Get"} :
          LET named == {r \in verifiableStore.credentialRecords : r.Name = request.Name}
          IN  /\ req' = [op |-> "GetCredentialByName", request |-> request,
                         fault |-> fault]
              /\ ret' =
                   IF fault = "Decode" THEN
                       ValidationError(InvalidRequestErrorCode,
                                       <<"request decode">> \o ErrDecode)
                   ELSE IF request.Name = EmptyString THEN
                       ValidationError(InvalidRequestErrorCode, errEmptyCredentialName)
                   ELSE IF fault = "Get" \/ named = {} THEN
                       ValidationError(GetCredentialByNameErrorCode,
                                       <<"get vc by name">> \o ErrDataNotFound)
                   ELSE Response([Name |-> request.Name,
                                  ID |-> (CHOOSE r \in named : TRUE).ID])
    /\ UNCHANGED <<verifiableStore, didDoc, opts, doc>>

GetCredentials ==
    /\ pc = "idle"
    /\ pc' = "GetCredentials"
    /\ \E fault \in {"none", "Get"} :
          /\ req' = [op |-> "GetCredentials", fault |-> fault]
          /\ ret' = IF fault = "Get" THEN
                        ValidationError(GetCredentialsErrorCode,
                            <<"get credential records">> \o <<"failed to query store">>)
                    ELSE Response([Result |-> verifiableStore.credentialRecords])
    /\ UNCHANGED <<verifiableStore, didDoc, opts, doc>>

GetPresentations ==
    /\ pc = "idle"
    /\ pc' = "GetPresentations"
    /\ \E fault \in {"none", "Get"} :
          /\ req' = [op |-> "GetPresentations", fault |-> fault]
          /\ ret' = IF fault = "Get" THEN
                        ValidationError(GetPresentationsErrorCode,
                            <<"get presentation records">> \o <<"failed to query store">>)
                    ELSE Response([Result |-> verifiableStore.presentationRecords])
    /\ UNCHANGED <<verifiableStore, didDoc, opts, doc>>

-----------------------------------------------------------------------------
(* SpecStore: every command of the controller called on a store that       *)
(* starts empty, with one DID document registered                          *)

InitStore ==
    /\ pc = "idle"
    /\ verifiableStore = EmptyStore
    /\ didDoc \in {d \in Docs : /\ Len(d.PublicKey) = 1
                                /\ d.PublicKey[1].ID = <<"#", "key1">>
                                /\ HasPrefix(d.PublicKey[1].Type, Ed25519VerificationKey)
                                /\ Len(d.Authentication) = 0}
    /\ doc = ExampleCredential
    /\ opts = Nil
    /\ req = NoReq
    /\ ret = NoRet

NextStore ==
    \/ ValidateCredential
    \/ SaveCredential
    \/ SavePresentation
    \/ GetCredential
    \/ GetPresentation
    \/ GetCredentialByName
    \/ GetCredentials
    \/ GetPresentations
    \/ GeneratePresentationUndecodable
    \/ GeneratePresentation
    \/ GeneratePresentationByIDUndecodable
    \/ GeneratePresentationByID
    \/ Return

SpecStore == InitStore /\ [][NextStore]_vars

-----------------------------------------------------------------------------
(* Claims on the record store, checked under SpecStore *)

\* C28: the record store changes only through a successful save.  A step
\* that changes the store is a SaveCredential or SavePresentation that
\* answers without an error; the read commands, ValidateCredential and both
\* generate commands leave it as it was; a save rejected for an undecodable
\* body, an empty name or an unparsable document leaves it as it was; and a
\* request with an empty name is answered with the name error whether or not
\* its document parses, the name being checked first.
C28_StoreChangesOnlyThroughSave ==
    [][/\ verifiableStore' # verifiableStore
            => /\ pc' \in {"SaveCredential", "SavePresentation"}
               /\ ret'.err = NoErr
       /\ (/\ pc' \in {"SaveCredential", "SavePresentation"}
           /\ \/ req'.fault \in {"Decode", "NewCredential", "NewPresentation"}
              \/ req'.request.Name = EmptyString)
            => /\ ret'.err # NoErr
               /\ verifiableStore' = verifiableStore
       /\ (/\ pc' \in {"SaveCredential", "SavePresentation"}
           /\ req'.fault \in {"NewCredential", "NewPresentation"}
           /\ req'.request.Name = EmptyString)
            => ret'.err = IF pc' = "SaveCredential" THEN errEmptyCredentialName
                          ELSE errEmptyPresentationName]_vars

\* a stored credential outlives a rejected save of an unparsable document
\* under an empty name, which is answered with the name error
C28_Witness ==
    /\ pc = "SaveCredential"
    /\ req.fault = "NewCredential"
    /\ req.request.Name = EmptyString
    /\ ret.err = errEmptyCredentialName
    /\ verifiableStore.credentials # {}
    /\ verifiableStore.presentations # {}

-----------------------------------------------------------------------------
(* Credentials as JSON Web Tokens *)

\* the instants the examples use, and their Unix time in seconds
Instants == {<<"2009-01-01T19:23:24Z">>, <<"2010-01-01T19:23:24Z">>,
             <<"2020-01-01T19:23:24Z">>}
expired == <<"2020-01-01T19:23:24Z">>

\* jwt.NewNumericDate(t): the seconds since the epoch
NumericDate(t) ==
    IF t = <<"2009-01-01T19:23:24Z">> THEN 1230837804
    ELSE IF t = <<"2010-01-01T19:23:24Z">> THEN 1262373804
    ELSE 1577906604

\* NumericDate.Time(), formatted as the credential holds it
TimeOf(n) == CHOOSE t \in Instants : NumericDate(t) = n

\* verifiable.Credential: the fields the claims are built from.  Expired is
\* NilTime when the credential does not expire; CustomFields is the set of
\* the extension members, each a pair of name and value.
Credentials ==
    [Context : {<<"https://www.w3.org/2018/credentials/v1",
                  "https://www.w3.org/2018/credentials/examples/v1">>},
     ID : {<<"http://example.edu/credentials/1872">>,
           <<"http://example.edu/credentials/58473">>},
     Types : {<<"VerifiableCredential", "UniversityDegreeCredential">>},
     Subject : [ID : {<<"did:", "example:ebfeb1f712ebc6f1c276e12ec21">>},
                Name : {<<"Jayden Doe">>, <<"Alice Doe">>}],
     Issuer : [ID : {<<"did:", "example:76e12ec712ebc6f1c221ebfeb1f">>,
                     <<"did:", "example:123456">>},
               CustomFields : {{<<"name", <<"Example University">>>>}}],
     Issued : {<<"2009-01-01T19:23:24Z">>, issued},
     Expired : {NilTime, expired},
     CustomFields : {{}, {<<"referenceNumber", 83294847>>}}]

\* UniversityDegreeCredential: a credential embedded in a wrapper type that
\* adds a field of its own (0 when the wrapper is not used)
UniversityDegreeCredentials == [Credential : Credentials, ReferenceNumber : {0, 83294847}]

\* json.Marshal of a credential: the members of the JSON object, an omitted
\* member shown as the empty value
raw(vc) ==
    [context |-> vc.Context, id |-> vc.ID, type |-> vc.Types,
     credentialSubject |-> vc.Subject,
     issuer |-> [id |-> vc.Issuer.ID, customFields |-> vc.Issuer.CustomFields],
     issuanceDate |-> vc.Issued, expirationDate |-> vc.Expired,
     customFields |-> vc.CustomFields]

\* JWTClaims that nests the credential whole whatever minimizeVC says
JWTClaims_neverMinimised(vc, minimizeVC) ==
    [iss |-> vc.Issuer.ID, sub |-> vc.Subject.ID, jti |-> vc.ID,
     nbf |-> NumericDate(vc.Issued), iat |-> NumericDate(vc.Issued),
     exp |-> IF vc.Expired = NilTime THEN 0 ELSE NumericDate(vc.Expired),
     vc |-> raw(vc)]

\* JWTClaims that leaves the subject out of the registered claims
JWTClaims_noSubject(vc, minimizeVC) ==
    [iss |-> vc.Issuer.ID, sub |-> EmptyString, jti |-> vc.ID,
     nbf |-> NumericDate(vc.Issued), iat |-> NumericDate(vc.Issued),
     exp |-> IF vc.Expired = NilTime THEN 0 ELSE NumericDate(vc.Expired),
     vc |-> raw([vc EXCEPT !.ID = EmptyString, !.Issuer.ID = EmptyString,
                           !.Issued = NilTime, !.Expired = NilTime,
                           !.Subject.ID = EmptyString])]

\* vc.JWTClaims(minimizeVC): the registered claims (exp 0 when absent) and the
\* vc claim; a minimised vc claim leaves out what the registered claims hold
JWTClaims(vc, minimizeVC) ==
    [iss |-> vc.Issuer.ID, sub |-> vc.Subject.ID, jti |-> vc.ID,
     nbf |-> NumericDate(vc.Issued), iat |-> NumericDate(vc.Issued),
     exp |-> IF vc.Expired = NilTime THEN 0 ELSE NumericDate(vc.Expired),
     vc |-> IF minimizeVC
            THEN raw([vc EXCEPT !.ID = EmptyString, !.Issuer.ID = EmptyString,
                                !.Issued = NilTime, !.Expired = NilTime])
            ELSE raw(vc)]

\* jwtClaims.MarshalJWS(verifiable.EdDSA, signer, ""): header, payload and the
\* signer's signature over both
MarshalJWS(claims, alg, signer, keyID) ==
    [header |-> [alg |-> alg, kid |-> keyID, typ |-> "JWT"],
     payload |-> claims,
     signature |-> [by |-> signer, alg |-> alg]]

ErrJWSVerification == <<"decode new credential", "JWS decoding", "invalid signature">>

\* verifiable.ParseCredential(jws, WithPublicKeyFetcher(fetcher)): the signature
\* is checked with the key fetched for the issuer and the key id of the header,
\* then the credential is the vc claim with the registered claims written over
\* its members
ParseCredentialJWS(jws, fetcher) ==
    LET key == fetch(fetcher, jws.payload.iss, jws.header.kid)
        c == jws.payload
        v == c.vc
    IN  IF key.err # NoErr THEN [vc |-> Nil, err |-> key.err]
        ELSE IF jws.signature.by # key.Value \/ jws.signature.alg # jws.header.alg
        THEN [vc |-> Nil, err |-> ErrJWSVerification]
        ELSE [vc |-> [Context |-> v.context,
                      ID |-> IF c.jti # EmptyString THEN c.jti ELSE v.id,
                      Types |-> v.type,
                      Subject |-> IF c.sub # EmptyString
                                  THEN [v.credentialSubject EXCEPT !.ID = c.sub]
                                  ELSE v.credentialSubject,
                      Issuer |-> [ID |-> IF c.iss # EmptyString THEN c.iss ELSE v.issuer.id,
                                  CustomFields |-> v.issuer.customFields],
                      Issued |-> TimeOf(c.nbf),
                      Expired |-> IF c.exp # 0 THEN TimeOf(c.exp) ELSE v.expirationDate,
                      CustomFields |-> v.customFields],
              err |-> NoErr]

-----------------------------------------------------------------------------
(* SpecJWT: a credential turned into claims, the claims signed into a       *)
(* compact JWS, and the JWS parsed                                          *)

InitJWT ==
    /\ pc = "idle"
    /\ verifiableStore = EmptyStore
    /\ doc \in UniversityDegreeCredentials
    /\ didDoc = Nil
    /\ opts = Nil
    /\ req = NoReq
    /\ ret = NoRet

\* vc.JWTClaims(minimizeVC); the method is the embedded credential's
ToClaims ==
    /\ pc = "idle"
    /\ pc' = "JWTClaims"
    /\ \E minimizeVC \in BOOLEAN :
          /\ req' = [op |-> "JWTClaims", minimizeVC |-> minimizeVC]
          /\ ret' = [err |-> NoErr, claims |-> JWTClaims(doc.Credential, minimizeVC)]
    /\ UNCHANGED <<verifiableStore, didDoc, opts, doc>>

\* jwtClaims.MarshalJWS(verifiable.EdDSA, signer, "") with the issuer's signer
ToJWS ==
    /\ pc = "JWTClaims"
    /\ pc' = "MarshalJWS"
    /\ req' = [op |-> "MarshalJWS", minimizeVC |-> req.minimizeVC]
    /\ ret' = [err |-> NoErr,
               jws |-> MarshalJWS(ret.claims, "EdDSA", "issuerPubKey", EmptyString)]
    /\ UNCHANGED <<verifiableStore, didDoc, opts, doc>>

\* verifiable.ParseCredential(jws, WithPublicKeyFetcher(SingleKey(key, kms.ED25519)))
ParseJWS ==
    /\ pc = "MarshalJWS"
    /\ pc' = "ParseCredential"
    /\ \E pubKey \in {"issuerPubKey", "ecdsaPubKey"} :
          /\ req' = [op |-> "ParseCredential", minimizeVC |-> req.minimizeVC,
                     pubKey |-> pubKey]
          /\ ret' = ParseCredentialJWS(ret.jws, SingleKey(pubKey, <<"ED25519">>))
    /\ UNCHANGED <<verifiableStore, didDoc, opts, doc>>

NextJWT ==
    \/ ToClaims
    \/ ToJWS
    \/ ParseJWS
    \/ Return

SpecJWT == InitJWT /\ [][NextJWT]_vars

-----------------------------------------------------------------------------
(* Claims on the JWT form of a credential, checked under SpecJWT *)

C18_VCClaimHoldsFullCredential ==
    pc = "JWTClaims"
        => /\ ret.claims.iss = doc.Credential.Issuer.ID
           /\ ret.claims.sub = doc.Credential.Subject.ID
           /\ ret.claims.jti = doc.Credential.ID
           /\ ret.claims.nbf = NumericDate(doc.Credential.Issued)
           /\ doc.Credential.Expired # NilTime
                => ret.claims.exp = NumericDate(doc.Credential.Expired)
           /\ ret.claims.vc = raw(doc.Credential)

\* C18 amended: iss, sub, jti, nbf and exp are mapped from the issuer id, the
\* subject id, the credential id, the issuance date and the expiration date;
\* the vc claim holds the full credential when minimizeVC is false, and with
\* minimizeVC true it holds the credential without its id, its issuer id, its
\* issuance date and its expiration date, every other member as it is.
C18_VCClaimMinimised ==
    pc = "JWTClaims"
        => /\ ret.claims.iss = doc.Credential.Issuer.ID
           /\ ret.claims.sub = doc.Credential.Subject.ID
           /\ ret.claims.jti = doc.Credential.ID
           /\ ret.claims.nbf = NumericDate(doc.Credential.Issued)
           /\ doc.Credential.Expired # NilTime
                => ret.claims.exp = NumericDate(doc.Credential.Expired)
           /\ ~req.minimizeVC => ret.claims.vc = raw(doc.Credential)
           /\ req.minimizeVC
                => ret.claims.vc =
                      [raw(doc.Credential) EXCEPT
                          !.id = EmptyString, !.issuer.id = EmptyString,
                          !.issuanceDate = NilTime, !.expirationDate = NilTime]

C18_Witness ==
    /\ pc = "JWTClaims"
    /\ req.minimizeVC
    /\ doc.Credential.ID = <<"http://example.edu/credentials/1872">>
    /\ doc.Credential.Issued = <<"2009-01-01T19:23:24Z">>
    /\ ret.claims.jti = <<"http://example.edu/credentials/1872">>
    /\ ret.claims.nbf = 1230837804
    /\ ret.claims.vc.id = EmptyString
    /\ ret.claims.vc.issuanceDate = NilTime
    /\ ret.claims.vc.credentialSubject.ID = <<"did:", "example:ebfeb1f712ebc6f1c276e12ec21">>

-----------------------------------------------------------------------------
(* Selective disclosure of a credential signed with BBS+ *)

\* the credentialSubject node of vcStr; the type array is a set, its order
\* is not kept
PermanentResident ==
    [id |-> "did:example:b34ca6cd37bbf23",
     type |-> {"PermanentResident", "Person"},
     givenName |-> "JOHN", familyName |-> "SMITH", gender |-> "Male",
     image |-> "data:image/png;base64,iVBORw0KGgokJggg==",
     residentSince |-> "2015-01-01", lprCategory |-> "C09",
     lprNumber |-> "999-999-999", commuterClassification |-> "C1",
     birthCountry |-> "Bahamas", birthDate |-> "1958-07-17"]

\* the top-level members of vcStr other than @context and proof
PermanentResidentCard ==
    [id |-> "https://issuer.oidp.uscis.gov/credentials/83627465",
     type |-> {"VerifiableCredential", "PermanentResidentCard"},
     issuer |-> "did:example:b34ca6cd37bbf23",
     identifier |-> "83627465",
     name |-> "Permanent Resident Card",
     description |-> "Government of Example Permanent Resident Card.",
     issuanceDate |-> "2019-12-03T12:19:52Z",
     expirationDate |-> "2029-12-03T12:19:52Z",
     credentialSubject |-> PermanentResident]

\* the members of node named in names
Restrict(node, names) == [n \in names \cap DOMAIN node |-> node[n]]

\* the two proofs the example adds to the credential before it derives
Ed25519Proof ==
    AddLinkedDataProof([Proofs |-> <<>>],
        [VerificationMethod |-> <<"did:", "example:123456", "#", "key1">>,
         SignatureRepresentation |-> "SignatureJWS",
         SignatureType |-> Ed25519Signature2018,
         Suite |-> [name |-> Ed25519Signature2018, signer |-> "issuerPubKey"],
         Created |-> issued, Domain |-> EmptyString, Challenge |-> EmptyString,
         Purpose |-> EmptyString], NoErr).doc.Proofs[1]

BBSProof ==
    AddLinkedDataProof([Proofs |-> <<>>],
        [VerificationMethod |-> <<"did:", "example:123456", "#", "key1">>,
         SignatureRepresentation |-> "SignatureProofValue",
         SignatureType |-> <<"BbsBlsSignature2020">>,
         Suite |-> [name |-> <<"BbsBlsSignature2020">>, signer |-> "bbsPubKey"],
         Created |-> issued, Domain |-> EmptyString, Challenge |-> EmptyString,
         Purpose |-> EmptyString], NoErr).doc.Proofs[1]

\* the credentials a disclosure is derived from: vcStr with both proofs, with
\* one of them, with none, and with a subject that has no gender member
SourceCredentials ==
    [fields : {PermanentResidentCard,
               [PermanentResidentCard EXCEPT !.credentialSubject =
                   Restrict(PermanentResident, DOMAIN PermanentResident \ {"gender"})]},
     Proofs : {<<Ed25519Proof, BBSProof>>, <<BBSProof, Ed25519Proof>>, <<BBSProof>>,
               <<Ed25519Proof>>, <<>>}]

\* the members a reveal document can name at top level and in the subject
\* node, a member the source does not have among them
TopNames == {"identifier", "issuer", "issuanceDate", "description", "validFrom"}
SubjectNames == {"givenName", "familyName", "gender", "birthDate", "middleName"}

\* a reveal document: @explicit and the named members at top level, and the
\* same for its credentialSubject node, which every reveal document has
RevealDocs ==
    [explicit : BOOLEAN,
     named : SUBSET TopNames,
     credentialSubject : [explicit : BOOLEAN, named : SUBSET SubjectNames]]

\* the reveal document of the example
ExampleRevealDoc ==
    [explicit |-> TRUE,
     named |-> {"identifier", "issuer", "issuanceDate"},
     credentialSubject |-> [explicit |-> TRUE,
                            named |-> {"givenName", "familyName", "gender"}]]

ErrNoProofs == <<"expected at least one proof present">>
ErrNoBBSProof == <<"create VC selective disclosure", "no BbsBlsSignature2020 proof present">>
ErrIssuerRequired == <<"build new credential", "validate new credential", "issuer is required">>
ErrIssuanceDateRequired ==
    <<"build new credential", "validate new credential", "issuanceDate is required">>

\* frame that keeps every member of a node, explicit or not
frame_explicitIgnored(node, explicit, named) == node

\* JSON-LD framing of one node: under @explicit the named members the node
\* has, with its id and type; every member otherwise
frame(node, explicit, named) ==
    IF explicit THEN Restrict(node, named \cup {"id", "type"}) ELSE node

\* the nonces a caller derives with
Nonces == {"some nonce", "other nonce"}

\* base64.StdEncoding.EncodeToString of a nonce
StdEncoding(nonce) ==
    IF nonce = "some nonce" THEN "c29tZSBub25jZQ=="
    ELSE IF nonce = "other nonce" THEN "b3RoZXIgbm9uY2U="
    ELSE ""

\* deriveProof that copies the source proof and adds the nonce as it is given
deriveProof_copiesSourceProof(p, nonce) == p @@ [nonce |-> nonce]

\* the derived proof of one BBS+ proof
deriveProof(p, nonce) ==
    [type |-> <<"BbsBlsSignatureProof2020">>,
     created |-> p.created,
     proofPurpose |-> p.proofPurpose,
     verificationMethod |-> p.verificationMethod,
     nonce |-> StdEncoding(nonce),
     proofValue |-> [derivedFrom |-> p.proofValue, nonce |-> nonce]]

\* the BBS+ proofs of a proof list, derived; the other proofs are dropped
RECURSIVE deriveProofs(_, _, _)
deriveProofs(proofs, i, nonce) ==
    IF i > Len(proofs) THEN <<>>
    ELSE IF proofs[i].type = <<"BbsBlsSignature2020">>
    THEN <<deriveProof(proofs[i], nonce)>> \o deriveProofs(proofs, i + 1, nonce)
    ELSE deriveProofs(proofs, i + 1, nonce)

\* the first error of the signature checks of the BBS+ proofs
RECURSIVE checkBBSProofs(_, _, _)
checkBBSProofs(proofs, i, fetcher) ==
    IF i > Len(proofs) THEN NoErr
    ELSE IF proofs[i].type # <<"BbsBlsSignature2020">>
    THEN checkBBSProofs(proofs, i + 1, fetcher)
    ELSE LET key == fetch(fetcher, EmptyString, proofs[i].verificationMethod)
         IN  IF key.err # NoErr THEN <<"create VC selective disclosure">> \o key.err
             ELSE IF proofs[i].proofValue.by # key.Value
             THEN <<"create VC selective disclosure">> \o ErrInvalidSignature
             ELSE checkBBSProofs(proofs, i + 1, fetcher)

\* the framed members of a credential: the top level and the subject node
SelectiveDisclosure(fields, revealDoc) ==
    LET top == frame(fields, revealDoc.explicit,
                     revealDoc.named \cup {"credentialSubject"})
    IN  [top EXCEPT !.credentialSubject =
            frame(@, revealDoc.credentialSubject.explicit,
                  revealDoc.credentialSubject.named)]

\* GenerateBBSSelectiveDisclosure that puts the source's issuer and issuance
\* date into every derived document
GenerateBBSSelectiveDisclosure_mandatoryRetained(vc, revealDoc, nonce, fetcher) ==
    LET derived == SelectiveDisclosure(vc.fields, revealDoc)
        proofs == deriveProofs(vc.Proofs, 1, nonce)
        e == checkBBSProofs(vc.Proofs, 1, fetcher)
    IN  IF Len(vc.Proofs) = 0 THEN [vc |-> Nil, err |-> ErrNoProofs, arg |-> vc]
        ELSE IF Len(proofs) = 0 THEN [vc |-> Nil, err |-> ErrNoBBSProof, arg |-> vc]
        ELSE IF e # NoErr THEN [vc |-> Nil, err |-> e, arg |-> vc]
        ELSE [vc |-> [fields |-> Restrict(vc.fields, {"issuer", "issuanceDate"}) @@ derived,
                      Proofs |-> proofs],
              err |-> NoErr, arg |-> vc]

\* GenerateBBSSelectiveDisclosure that frames the credential it is called on
\* and replaces its proofs
GenerateBBSSelectiveDisclosure_inPlace(vc, revealDoc, nonce, fetcher) ==
    LET derived == SelectiveDisclosure(vc.fields, revealDoc)
        proofs == deriveProofs(vc.Proofs, 1, nonce)
        e == checkBBSProofs(vc.Proofs, 1, fetcher)
        framed == [fields |-> derived, Proofs |-> proofs]
    IN  IF Len(vc.Proofs) = 0 THEN [vc |-> Nil, err |-> ErrNoProofs, arg |-> vc]
        ELSE IF Len(proofs) = 0 THEN [vc |-> Nil, err |-> ErrNoBBSProof, arg |-> vc]
        ELSE IF e # NoErr THEN [vc |-> Nil, err |-> e, arg |-> vc]
        ELSE IF "issuer" \notin DOMAIN derived
        THEN [vc |-> Nil, err |-> ErrIssuerRequired, arg |-> framed]
        ELSE IF "issuanceDate" \notin DOMAIN derived
        THEN [vc |-> Nil, err |-> ErrIssuanceDateRequired, arg |-> framed]
        ELSE [vc |-> framed, err |-> NoErr, arg |-> framed]

\* vc.GenerateBBSSelectiveDisclosure(revealDoc, nonce, WithPublicKeyFetcher(fetcher)):
\* the derived members with the derived proofs, parsed as a credential, which
\* must have an issuer and an issuance date.  vc: the derived credential (Nil
\* on error); arg: the credential the call was made on, as the call leaves it
GenerateBBSSelectiveDisclosure(vc, revealDoc, nonce, fetcher) ==
    LET derived == SelectiveDisclosure(vc.fields, revealDoc)
        proofs == deriveProofs(vc.Proofs, 1, nonce)
        e == checkBBSProofs(vc.Proofs, 1, fetcher)
    IN  IF Len(vc.Proofs) = 0 THEN [vc |-> Nil, err |-> ErrNoProofs, arg |-> vc]
        ELSE IF Len(proofs) = 0 THEN [vc |-> Nil, err |-> ErrNoBBSProof, arg |-> vc]
        ELSE IF e # NoErr THEN [vc |-> Nil, err |-> e, arg |-> vc]
        ELSE IF "issuer" \notin DOMAIN derived
        THEN [vc |-> Nil, err |-> ErrIssuerRequired, arg |-> vc]
        ELSE IF "issuanceDate" \notin DOMAIN derived
        THEN [vc |-> Nil, err |-> ErrIssuanceDateRequired, arg |-> vc]
        ELSE [vc |-> [fields |-> derived, Proofs |-> proofs], err |-> NoErr, arg |-> vc]

-----------------------------------------------------------------------------
(* SpecDerive: selective disclosures derived from a credential in hand *)

InitDerive ==
    /\ pc = "idle"
    /\ verifiableStore = EmptyStore
    /\ doc \in SourceCredentials
    /\ didDoc = Nil
    /\ opts = Nil
    /\ req = NoReq
    /\ ret = NoRet

DeriveSelectiveDisclosure ==
    /\ pc = "idle"
    /\ pc' = "GenerateBBSSelectiveDisclosure"
    /\ \E revealDoc \in RevealDocs, pubKey \in {"bbsPubKey", "issuerPubKey"},
          nonce \in Nonces :
          /\ req' = [op |-> "GenerateBBSSelectiveDisclosure", revealDoc |-> revealDoc,
                     pubKey |-> pubKey, nonce |-> nonce]
          /\ LET r == GenerateBBSSelectiveDisclosure(doc, revealDoc, nonce,
                            SingleKey(pubKey, <<"Bls12381G2Key2020">>))
             IN  /\ ret' = [vc |-> r.vc, err |-> r.err]
                 /\ doc' = r.arg
    /\ UNCHANGED <<verifiableStore, didDoc, opts>>

NextDerive ==
    \/ DeriveSelectiveDisclosure
    \/ Return

SpecDerive == InitDerive /\ [][NextDerive]_vars

-----------------------------------------------------------------------------
(* Claims on selective disclosure, checked under SpecDerive *)

\* a derivation that returned a derived document
disclosureDerived == pc = "GenerateBBSSelectiveDisclosure" /\ ret.err = NoErr

\* node is what an explicit reveal node naming the members named leaves of
\* source: the named members source has, its id and its type, each with the
\* source's value, and nothing else
exactlyNamed(node, source, named) ==
    /\ DOMAIN node = (named \cup {"id", "type"}) \cap DOMAIN source
    /\ \A n \in DOMAIN node : node[n] = source[n]

\* C19: for every node of the reveal document marked @explicit, the node of
\* the derived document holds exactly the named members that exist in the
\* source, with the node's id and type, and no other member of the source.
C19_ExplicitNodesHoldNamedFieldsOnly ==
    disclosureDerived
        => /\ req.revealDoc.credentialSubject.explicit
                => exactlyNamed(ret.vc.fields.credentialSubject,
                                doc.fields.credentialSubject,
                                req.revealDoc.credentialSubject.named)
           /\ req.revealDoc.explicit
                => exactlyNamed(Restrict(ret.vc.fields,
                                         DOMAIN ret.vc.fields \ {"credentialSubject"}),
                                Restrict(doc.fields,
                                         DOMAIN doc.fields \ {"credentialSubject"}),
                                req.revealDoc.named)

C19_Witness ==
    /\ disclosureDerived
    /\ req.revealDoc = ExampleRevealDoc
    /\ doc.fields = PermanentResidentCard
    /\ DOMAIN ret.vc.fields.credentialSubject
          = {"familyName", "gender", "givenName", "id", "type"}
    /\ DOMAIN ret.vc.fields
          = {"credentialSubject", "id", "identifier", "issuanceDate", "issuer", "type"}
    /\ Len(ret.vc.Proofs) = 1

\* the source carries a BBS+ proof and the fetcher answers with its key
derivable ==
    /\ pc = "GenerateBBSSelectiveDisclosure"
    /\ \E i \in 1..Len(doc.Proofs) : doc.Proofs[i].type = <<"BbsBlsSignature2020">>
    /\ req.pubKey = "bbsPubKey"

\* the reveal document keeps the source's issuer and issuance date
mandatoryRevealed ==
    \/ ~req.revealDoc.explicit
    \/ {"issuer", "issuanceDate"} \subseteq req.revealDoc.named

\* C20 as stated: every reveal document yields a derived document that holds
\* the source's issuer and issuance date, a reveal document with @explicit at
\* top level that names neither included.
C20_MandatoryFieldsAlwaysRetained ==
    derivable
        => /\ ret.err = NoErr
           /\ ret.vc.fields.issuer = doc.fields.issuer
           /\ ret.vc.fields.issuanceDate = doc.fields.issuanceDate

\* C20 amended: every derived document that is returned holds the source's
\* issuer and issuance date, but the derivation does not add them: with
\* @explicit at top level they are kept only when the reveal document names
\* both, and a reveal document that leaves one out yields an error and no
\* derived document.
C20_MandatoryFieldsMustBeNamed ==
    /\ disclosureDerived => /\ ret.vc.fields.issuer = doc.fields.issuer
                  /\ ret.vc.fields.issuanceDate = doc.fields.issuanceDate
    /\ derivable => (ret.err = NoErr <=> mandatoryRevealed)
    /\ (derivable /\ ~mandatoryRevealed)
          => (ret.vc = Nil /\ ret.err \in {ErrIssuerRequired, ErrIssuanceDateRequired})

C20_Witness ==
    /\ derivable
    /\ req.revealDoc.explicit
    /\ req.revealDoc.named = {"identifier"}
    /\ ret.vc = Nil
    /\ ret.err = ErrIssuerRequired

\* the BbsBlsSignature2020 proof of the source
sourceBBSProof ==
    doc.Proofs[CHOOSE i \in 1..Len(doc.Proofs) : doc.Proofs[i].type = <<"BbsBlsSignature2020">>]

C22_SourceUnchanged ==
    [][pc' = "GenerateBBSSelectiveDisclosure"
         => /\ doc'.fields = doc.fields
            /\ doc'.Proofs = doc.Proofs]_vars

C22_Witness ==
    /\ disclosureDerived
    /\ req.revealDoc = ExampleRevealDoc
    /\ doc.fields = PermanentResidentCard
    /\ doc.Proofs = <<Ed25519Proof, BBSProof>>
    /\ "name" \notin DOMAIN ret.vc.fields
    /\ Len(ret.vc.Proofs) = 1

=============================================================================
